---- MODULE Spec2Model ----
(***************************************************************************)
(* Retrieval-and-ranking core of the Mental-Health-Chatbot backend         *)
(* (src/backend/layers/rag_precision.py): the BM25 lexical index, the      *)
(* multi-query generator, the hybrid retriever, the reranker, the          *)
(* orchestrator retrieve_with_precision with its citations, and the two    *)
(* semantic chunkers (rag_precision.py and load_kb_enhanced.py); the       *)
(* embedding client of rag_system_v2.py, the BM25 methods run statement    *)
(* by statement by concurrent threads, and services/rate_limiter.py.       *)
(*                                                                         *)
(* Text is a sequence of words; a word is a string; the chunkers read      *)
(* text as a sequence of characters.  Real numbers are fixed point: a      *)
(* score s is the integer s * Milli, rounded down.                         *)
(***************************************************************************)
EXTENDS Integers, Sequences, FiniteSets, TLC

VARIABLES
    bm25,       \* the BM25 object: doc_count, doc_len, doc_freqs, avgdl, idf, initialized
    fitted,     \* history: the documents of the last fit, <<"never">> before the first one
    documents_cache,     \* RAGPrecisionBoost._documents_cache
    documents_metadata,  \* RAGPrecisionBoost._documents_metadata
    inp,        \* the arguments and collaborator behaviour of the call about to be made
    ret,        \* the last call and what it returned
    threads,    \* the calls of BM25 methods in progress, each with its position and locals
    rate_limiter,  \* the RateLimiter object: max_messages, window_seconds, user_requests
    current_time,  \* what time.time() returns, in seconds
    granted     \* history: per user, the times is_allowed returned True since the last reset

\* The variables of the concurrent BM25 calls and of the rate limiter.
other_vars == <<threads, rate_limiter, current_time, granted>>

vars == <<bm25, fitted, documents_cache, documents_metadata, inp, ret, other_vars>>

\* No method call is in progress.
NoThreads == threads = <<>>

\* No RateLimiter has been constructed.
NoRateLimiter ==
    /\ rate_limiter = [max_messages |-> 0, window_seconds |-> 0, user_requests |-> <<>>]
    /\ current_time = 0
    /\ granted = <<>>

(***************************** bounds **************************************)
\* Longest corpus handed to fit.
MaxDocs == 3
\* Largest top_k / doc_index magnitude tried.
MaxK == 3
\* Most queries the LLM lists in one response.
MaxCandidates == 20
\* Longest list handed to rerank_results.
MaxResults == 2
\* Largest k of a retrieve_with_precision call
MaxRetrieveK == 2
\* Most pieces a chunked text is made of
MaxPieces == 3

(************************* fixed point *************************************)
Milli == 1000

\* ln(n) * Milli for n in 1..16, rounded to the nearest integer.
LnMilli == <<0, 693, 1099, 1386, 1609, 1792, 1946, 2079,
             2197, 2303, 2398, 2485, 2565, 2639, 2708, 2773>>

Min(a, b) == IF a <= b THEN a ELSE b
Max(a, b) == IF a >= b THEN a ELSE b

RECURSIVE SumSeq(_)
SumSeq(s) == IF s = <<>> THEN 0 ELSE Head(s) + SumSeq(Tail(s))

\* seq[:k] of Python, k of either sign.
PySlice(s, k) ==
    IF k >= 0 THEN SubSeq(s, 1, Min(k, Len(s)))
    ELSE SubSeq(s, 1, Max(Len(s) + k, 0))

\* dict.get(key, default)
Get(d, key, default) == IF key \in DOMAIN d THEN d[key] ELSE default

(***************************** inputs **************************************)
\* str.lower() on one word.
Lower(w) ==
    CASE w = "Lo" -> "lo"
      [] w = "Au" -> "au"
      [] w = "Stress" -> "stress"
      [] w = "CBT" -> "cbt"
      [] OTHER -> w

\* Words that \w does not match.
Punct == {".", ","}

DocA == <<"lo", "au", "lo">>
DocB == <<"Lo", ".", "tho">>
DocPool == {DocA, DocB}

QueryPool == {<<"lo", "au", "tho">>, <<"Au", ",", "au">>, <<"xx">>}

RECURSIVE SeqsUpTo(_, _)
SeqsUpTo(S, n) ==
    IF n = 0 THEN {<<>>}
    ELSE LET shorter == SeqsUpTo(S, n - 1)
         IN  shorter \cup {Append(s, x) : s \in {t \in shorter : Len(t) = n - 1}, x \in S}

Corpora == SeqsUpTo(DocPool, MaxDocs)

(****************************** BM25 ***************************************)
\* k1 = 1.5 and b = 0.75, in hundredths.
K1x100 == 150
Bx100 == 75

BM25_init ==
    [doc_count |-> 0, doc_len |-> <<>>, doc_freqs |-> <<>>, avgdl |-> 0,
     idf |-> <<>>, initialized |-> FALSE]

tokenize(text) ==
    SelectSeq([i \in 1..Len(text) |-> Lower(text[i])], LAMBDA w : w \notin Punct)

\* Counter(tokens)
Counter(tokens) ==
    [t \in {tokens[i] : i \in 1..Len(tokens)} |->
        Cardinality({i \in 1..Len(tokens) : tokens[i] = t})]

\* math.log((N - freq + 0.5) / (freq + 0.5) + 1) = ln((2N + 2) / (2 freq + 1))
\* Line 84 without the + 1 inside the logarithm: ln((N - df + 0.5)/(df + 0.5)).
IdfNoPlusOne(N, freq) == LnMilli[2 * (N - freq) + 1] - LnMilli[2 * freq + 1]

Idf(N, freq) == LnMilli[2 * N + 2] - LnMilli[2 * freq + 1]

\* fit without lines 63-64: the per-document lists are appended to, not replaced.
BM25_fit_append(self, documents) ==
    LET N      == Len(documents)
        toks   == [i \in 1..N |-> tokenize(documents[i])]
        lens   == [i \in 1..N |-> Len(toks[i])]
        freqs  == [i \in 1..N |-> Counter(toks[i])]
        seen   == UNION {DOMAIN freqs[i] : i \in 1..N}
        df     == [t \in seen |-> Cardinality({i \in 1..N : t \in DOMAIN freqs[i]})]
    IN  [doc_count   |-> N,
         doc_len     |-> self.doc_len \o lens,
         doc_freqs   |-> self.doc_freqs \o freqs,
         avgdl       |-> IF N # 0 THEN (SumSeq(self.doc_len \o lens) * Milli) \div N ELSE 0,
         idf         |-> [t \in DOMAIN self.idf \cup seen |->
                            IF t \in seen THEN Idf(N, df[t]) ELSE self.idf[t]],
         initialized |-> TRUE]

BM25_fit(self, documents) ==
    LET N      == Len(documents)
        toks   == [i \in 1..N |-> tokenize(documents[i])]
        lens   == [i \in 1..N |-> Len(toks[i])]
        freqs  == [i \in 1..N |-> Counter(toks[i])]
        seen   == UNION {DOMAIN freqs[i] : i \in 1..N}
        df     == [t \in seen |-> Cardinality({i \in 1..N : t \in DOMAIN freqs[i]})]
    IN  [doc_count   |-> N,
         doc_len     |-> lens,
         doc_freqs   |-> freqs,
         avgdl       |-> IF N # 0 THEN (SumSeq(lens) * Milli) \div N ELSE 0,
         \* self.idf is never cleared: entries of earlier fits stay
         idf         |-> [t \in DOMAIN self.idf \cup seen |->
                            IF t \in seen THEN Idf(N, df[t]) ELSE self.idf[t]],
         initialized |-> TRUE]

\* seq[i] of Python: 0-based, negative i counts from the end; 0 when out of range.
PyIndex(n, i) ==
    IF 0 <= i /\ i < n THEN i + 1
    ELSE IF i < 0 /\ -i <= n THEN n + i + 1
    ELSE 0

\* One term of the BM25 sum, for a token the document holds freq times.
ScoreTerm(self, freq, idf, doc_len) ==
    LET numerator   == (freq * (K1x100 + 100) * Milli) \div 100
        ratio       == (doc_len * Milli * Milli) \div self.avgdl
        lenNorm     == ((100 - Bx100) * Milli + Bx100 * ratio) \div 100
        denominator == freq * Milli + (K1x100 * lenNorm) \div 100
    IN  (idf * numerator) \div denominator

RECURSIVE ScoreLoop(_, _, _, _)
ScoreLoop(self, query_tokens, doc_freqs, doc_len) ==
    IF query_tokens = <<>> THEN [raised |-> FALSE, value |-> 0]
    ELSE LET token == Head(query_tokens)
             rest  == ScoreLoop(self, Tail(query_tokens), doc_freqs, doc_len)
         IN  IF token \notin DOMAIN doc_freqs THEN rest
             ELSE IF self.avgdl = 0 THEN [raised |-> TRUE, value |-> 0]
             ELSE IF rest.raised THEN rest
             ELSE [raised |-> FALSE,
                   value  |-> ScoreTerm(self, doc_freqs[token],
                                        Get(self.idf, token, 0), doc_len) + rest.value]

\* score without the guard of lines 107-108.
BM25_score_unguarded(self, query, doc_index) ==
    LET at == PyIndex(Len(self.doc_freqs), doc_index)
        al == PyIndex(Len(self.doc_len), doc_index)
    IN  IF at = 0 \/ al = 0 THEN [raised |-> TRUE, value |-> 0]
        ELSE ScoreLoop(self, tokenize(query), self.doc_freqs[at], self.doc_len[al])

\* score(query, doc_index): the value returned, or raised (IndexError, ZeroDivisionError).
BM25_score(self, query, doc_index) ==
    IF ~self.initialized THEN [raised |-> FALSE, value |-> 0]
    ELSE LET at == PyIndex(Len(self.doc_freqs), doc_index)
             al == PyIndex(Len(self.doc_len), doc_index)
         IN  IF at = 0 \/ al = 0 THEN [raised |-> TRUE, value |-> 0]
             ELSE ScoreLoop(self, tokenize(query), self.doc_freqs[at], self.doc_len[al])

\* score reading its counters with pop(token) instead of [token].
BM25_score_state_pop(self, query, doc_index) ==
    LET at == PyIndex(Len(self.doc_freqs), doc_index)
        qs == {tokenize(query)[i] : i \in 1..Len(tokenize(query))}
    IN  IF ~self.initialized \/ at = 0 THEN self
        ELSE [self EXCEPT !.doc_freqs[at] =
                 [t \in DOMAIN self.doc_freqs[at] \ qs |-> self.doc_freqs[at][t]]]

\* score writing the length of the document it read into self.avgdl.
BM25_score_state_avgdl(self, query, doc_index) ==
    LET al == PyIndex(Len(self.doc_len), doc_index)
    IN  IF ~self.initialized \/ al = 0 THEN self
        ELSE [self EXCEPT !.avgdl = self.doc_len[al] * Milli]

\* The object after score(query, doc_index): score assigns no attribute and only
\* reads the counters (a Counter lookup of a present key inserts nothing).
BM25_score_state(self, query, doc_index) == self

\* An insertion that puts the new pair before the pairs of equal score
\* (sorting ascending and reversing does this).
RECURSIVE InsertDescTiesFirst(_, _)
InsertDescTiesFirst(sorted, x) ==
    IF sorted = <<>> THEN <<x>>
    ELSE IF Head(sorted)[2] > x[2]
         THEN <<Head(sorted)>> \o InsertDescTiesFirst(Tail(sorted), x)
    ELSE <<x>> \o sorted

\* list.sort(key = score, reverse = True): stable, equal scores keep their order.
RECURSIVE InsertDesc(_, _)
InsertDesc(sorted, x) ==
    IF sorted = <<>> THEN <<x>>
    ELSE IF Head(sorted)[2] >= x[2] THEN <<Head(sorted)>> \o InsertDesc(Tail(sorted), x)
    ELSE <<x>> \o sorted

RECURSIVE SortDesc(_)
SortDesc(s) ==
    IF s = <<>> THEN <<>>
    ELSE InsertDesc(SortDesc(SubSeq(s, 1, Len(s) - 1)), s[Len(s)])

\* search(query, top_k): the list of <<doc_index, score>> returned, or raised.
BM25_search(self, query, top_k) ==
    IF ~self.initialized THEN [raised |-> FALSE, value |-> <<>>]
    ELSE LET each   == [n \in 1..self.doc_count |-> BM25_score(self, query, n - 1)]
             scores == [n \in 1..self.doc_count |-> <<n - 1, each[n].value>>]
         IN  IF \E n \in 1..self.doc_count : each[n].raised
             THEN [raised |-> TRUE, value |-> <<>>]
             ELSE [raised |-> FALSE, value |-> PySlice(SortDesc(scores), top_k)]

\* The object after search(query, top_k): that of the score calls it makes.
RECURSIVE BM25_search_state(_, _, _)
BM25_search_state(self, query, n) ==
    IF n = 0 \/ ~self.initialized THEN self
    ELSE BM25_score_state(BM25_search_state(self, query, n - 1), query, n - 1)

(************************* BM25 as a state machine *************************)
NoRet == [op |-> "none"]
NoInp == [op |-> "none"]

InitBM25 ==
    /\ bm25 = BM25_init
    /\ fitted = <<"never">>
    /\ documents_cache = <<>>
    /\ documents_metadata = <<>>
    /\ NoThreads
    /\ NoRateLimiter
    /\ inp = NoInp
    /\ ret = NoRet

Fit(documents) ==
    /\ bm25' = BM25_fit(bm25, documents)
    /\ fitted' = documents
    /\ ret' = [op |-> "fit"]
    /\ UNCHANGED <<documents_cache, documents_metadata, inp, other_vars>>

ScoreCall(query, doc_index) ==
    /\ ret' = [op |-> "score", query |-> query, arg |-> doc_index,
               out |-> BM25_score(bm25, query, doc_index)]
    /\ bm25' = BM25_score_state(bm25, query, doc_index)
    /\ UNCHANGED <<fitted, documents_cache, documents_metadata, inp, other_vars>>

SearchCall(query, top_k) ==
    /\ ret' = [op |-> "search", query |-> query, arg |-> top_k,
               out |-> BM25_search(bm25, query, top_k)]
    /\ bm25' = BM25_search_state(bm25, query, bm25.doc_count)
    /\ UNCHANGED <<fitted, documents_cache, documents_metadata, inp, other_vars>>

NextBM25 ==
    \/ \E documents \in Corpora : Fit(documents)
    \/ \E query \in QueryPool, doc_index \in -MaxK..MaxK : ScoreCall(query, doc_index)
    \/ \E query \in QueryPool, top_k \in 0..MaxK : SearchCall(query, top_k)

SpecBM25 == InitBM25 /\ [][NextBM25]_vars

(*********************** LLM responses and JSON ****************************)
\* A JSON value is a record whose one field names its type; a Python str is
\* JStr of its words.
JNum(n) == [num |-> n]
JStr(words) == [str |-> words]
JNull == [null |-> TRUE]
JList(items) == [list |-> items]
JDict(d) == [dict |-> d]

IsNum(v) == "num" \in DOMAIN v
IsStr(v) == "str" \in DOMAIN v
IsList(v) == "list" \in DOMAIN v
IsDict(v) == "dict" \in DOMAIN v

\* A response text is a sequence of tokens: the code-fence markers (three
\* backquotes followed by json, three backquotes alone), white space, prose,
\* and the text of one JSON value.
FenceJson == [tok |-> "fence_json"]
Fence == [tok |-> "fence"]
Ws == [tok |-> "ws"]
Prose == [tok |-> "prose"]
JsonText(v) == [json |-> v]

\* generate_content(prompt): raises, or returns a response with this text.
Raises == [raises |-> TRUE]
Text(tokens) == [text |-> tokens]

Contains(text, tok) == \E i \in 1..Len(text) : text[i] = tok

IndexOf(text, tok) ==
    IF Contains(text, tok)
    THEN CHOOSE i \in 1..Len(text) :
             text[i] = tok /\ \A j \in 1..(i - 1) : text[j] # tok
    ELSE 0

\* text.split(sep)[0]
SplitFirst(text, sep) ==
    IF Contains(text, sep) THEN SubSeq(text, 1, IndexOf(text, sep) - 1) ELSE text

\* text.split(sep)[1], for a text that contains sep
SplitSecond(text, sep) ==
    SplitFirst(SubSeq(text, IndexOf(text, sep) + 1, Len(text)), sep)

RECURSIVE LStrip(_)
LStrip(text) ==
    IF text # <<>> /\ Head(text) = Ws THEN LStrip(Tail(text)) ELSE text

RECURSIVE RStrip(_)
RStrip(text) ==
    IF text # <<>> /\ text[Len(text)] = Ws
    THEN RStrip(SubSeq(text, 1, Len(text) - 1)) ELSE text

Strip(text) == LStrip(RStrip(text))

\* json.loads(text): the value, or a JSONDecodeError.
json_loads(text) ==
    IF Len(text) = 1 /\ "json" \in DOMAIN text[1]
    THEN [ok |-> TRUE, value |-> text[1].json]
    ELSE [ok |-> FALSE]

(************************ multi-query generator ****************************)
\* synonym_map, in insertion order (words without diacritics).
SynonymMap == <<
    [term |-> <<"lo", "au">>,
     synonyms |-> <<<<"anxiety">>, <<"lo", "lang">>, <<"bat", "an">>, <<"hoang", "mang">>>>],
    [term |-> <<"stress">>,
     synonyms |-> <<<<"cang", "thang">>, <<"ap", "luc">>, <<"met", "moi">>>>],
    [term |-> <<"buon">>,
     synonyms |-> <<<<"sad">>, <<"depression">>, <<"tram", "cam">>, <<"dau", "kho">>>>],
    [term |-> <<"tuc", "gian">>,
     synonyms |-> <<<<"angry">>, <<"buc", "boi">>, <<"kho", "chiu">>>>],
    [term |-> <<"so">>,
     synonyms |-> <<<<"fear">>, <<"lo", "so">>, <<"hoang", "so">>>>],
    [term |-> <<"ngu">>,
     synonyms |-> <<<<"sleep">>, <<"mat", "ngu">>, <<"insomnia">>>>],
    [term |-> <<"CBT">>,
     synonyms |-> <<<<"lieu", "phap", "nhan", "thuc", "hanh", "vi">>,
                    <<"cognitive", "behavioral", "therapy">>>>],
    [term |-> <<"mindfulness">>,
     synonyms |-> <<<<"chanh", "niem">>, <<"thien">>, <<"meditation">>>>] >>

StartsWith(text, term) ==
    Len(term) <= Len(text) /\ SubSeq(text, 1, Len(term)) = term

\* term in text
RECURSIVE Occurs(_, _)
Occurs(term, text) ==
    \/ StartsWith(text, term)
    \/ text # <<>> /\ Occurs(term, Tail(text))

\* text.replace(term, syn)
RECURSIVE Replace(_, _, _)
Replace(text, term, syn) ==
    IF text = <<>> THEN <<>>
    ELSE IF StartsWith(text, term)
         THEN syn \o Replace(SubSeq(text, Len(term) + 1, Len(text)), term, syn)
    ELSE <<Head(text)>> \o Replace(Tail(text), term, syn)

RECURSIVE ExpansionLoop(_, _)
ExpansionLoop(query_lower, n) ==
    IF n = 0 THEN <<>>
    ELSE LET e    == SynonymMap[n]
             syns == PySlice(e.synonyms, 2)
         IN  ExpansionLoop(query_lower, n - 1) \o
             (IF Occurs(e.term, query_lower)
              THEN [i \in 1..Len(syns) |-> Replace(query_lower, e.term, syns[i])]
              ELSE <<>>)

\* _simple_query_expansion(query): at most 3 texts
simple_query_expansion(query) ==
    LET query_lower == [i \in 1..Len(query) |-> Lower(query[i])]
    IN  PySlice(ExpansionLoop(query_lower, Len(SynonymMap)), 3)

StrList(texts) == [i \in 1..Len(texts) |-> JStr(texts[i])]

\* The elements list.extend(v) appends, or a TypeError for a value that is not
\* iterable.  A str yields its units, a dict its keys.
Iterate(v) ==
    IF IsList(v) THEN [ok |-> TRUE, items |-> v.list]
    ELSE IF IsStr(v) THEN [ok |-> TRUE, items |-> [i \in 1..Len(v.str) |-> JStr(<<v.str[i]>>)]]
    ELSE IF IsDict(v)
         THEN [ok |-> TRUE,
               items |-> LET keys == DOMAIN v.dict
                             RECURSIVE AsSeq(_)
                             AsSeq(S) == IF S = {} THEN <<>>
                                         ELSE LET k == CHOOSE k \in S : TRUE
                                              IN  <<JStr(<<k>>)>> \o AsSeq(S \ {k})
                         IN  AsSeq(keys)]
    ELSE [ok |-> FALSE]

\* Lines 239-247: the JSON value of the response, or an exception.
ParseQueriesResponse(response) ==
    IF "raises" \in DOMAIN response THEN [ok |-> FALSE]
    ELSE LET response_text == Strip(response.text)
             cleaned ==
                 IF Contains(response_text, FenceJson)
                 THEN SplitFirst(SplitSecond(response_text, FenceJson), Fence)
                 ELSE IF Contains(response_text, Fence)
                      THEN SplitFirst(SplitSecond(response_text, Fence), Fence)
                 ELSE response_text
         IN  json_loads(Strip(cleaned))

\* The queries the try block of lines 233-251 adds, or an exception.
LLMQueries(response) ==
    LET data == ParseQueriesResponse(response)
    IN  IF ~data.ok THEN [ok |-> FALSE]
        ELSE IF ~IsDict(data.value) THEN [ok |-> FALSE]
        ELSE Iterate(Get(data.value.dict, "queries", JList(<<>>)))

\* generate_multi_queries returning queries instead of queries[:6].
generate_multi_queries_uncapped(model, original_query, response) ==
    LET queries  == <<JStr(original_query)>>
        fallback == StrList(simple_query_expansion(original_query))
    IN  IF ~model THEN PySlice(queries \o fallback, 5)
        ELSE LET added == LLMQueries(response)
             IN  IF added.ok THEN queries \o added.items
                 ELSE queries \o fallback

\* generate_multi_queries(original_query) of an object whose model is present
\* or None; response is what the model answers.
generate_multi_queries(model, original_query, response) ==
    LET queries  == <<JStr(original_query)>>
        fallback == StrList(simple_query_expansion(original_query))
    IN  IF ~model THEN PySlice(queries \o fallback, 5)
        ELSE LET added == LLMQueries(response)
             IN  IF added.ok THEN PySlice(queries \o added.items, 6)
                 ELSE PySlice(queries \o fallback, 6)

(****************** multi-query generator: the calls ***********************)
MQQueries == {<<"Lo", "au", "Stress">>, <<"buon">>, <<"xin", "chao">>}

Candidates(n) == [i \in 1..n |-> JStr(<<"variant", ToString(i)>>)]
QueriesJson(v) == JsonText(JDict([queries |-> v]))

\* What the LLM may answer to the prompt for original_query, each answer with
\* the kind of answer it is.
Responses(original_query) ==
    {[kind |-> "raises", response |-> Raises]}
    \cup {[kind |-> "listed", response |-> Text(<<QueriesJson(JList(Candidates(n)))>>)] :
            n \in 1..MaxCandidates}
    \cup {[kind |-> "listed",
           response |-> Text(<<Prose, FenceJson, Ws, QueriesJson(JList(Candidates(n))), Ws,
                               Fence, Prose>>)] : n \in 1..MaxCandidates}
    \cup {[kind |-> "listed",
           response |-> Text(<<Fence, QueriesJson(JList(Candidates(n))), Fence>>)] :
            n \in 1..MaxCandidates}
    \cup {[kind |-> "listed",
           response |-> Text(<<Ws, QueriesJson(JList(<<JStr(original_query),
                                                       JStr(original_query)>>)), Ws>>)],
          [kind |-> "non_json", response |-> Text(<<Prose>>)],
          [kind |-> "non_json", response |-> Text(<<>>)],
          [kind |-> "non_json",
           response |-> Text(<<Prose, QueriesJson(JList(Candidates(2)))>>)],
          [kind |-> "fenced_text", response |-> Text(<<Fence, Prose, Fence>>)],
          [kind |-> "fenced_text", response |-> Text(<<FenceJson, Prose, Fence>>)],
          [kind |-> "no_queries_list", response |-> Text(<<QueriesJson(JList(<<>>))>>)],
          [kind |-> "no_queries_list",
           response |-> Text(<<JsonText(JDict([reason |-> JStr(<<"none">>)]))>>)],
          [kind |-> "no_queries_list", response |-> Text(<<JsonText(JList(Candidates(2)))>>)],
          [kind |-> "queries_not_list", response |-> Text(<<QueriesJson(JNull)>>)],
          [kind |-> "queries_not_list", response |-> Text(<<QueriesJson(JNum(3))>>)],
          [kind |-> "queries_not_list",
           response |-> Text(<<QueriesJson(JStr(<<"lo", "lang", "la", "gi">>))>>)],
          [kind |-> "queries_not_list",
           response |-> Text(<<QueriesJson(JDict([cause |-> JNum(1)]))>>)]}

InitMQ ==
    /\ bm25 = BM25_init
    /\ fitted = <<"never">>
    /\ documents_cache = <<>>
    /\ documents_metadata = <<>>
    /\ NoThreads
    /\ NoRateLimiter
    /\ ret = NoRet
    /\ \E original_query \in MQQueries :
          \/ inp = [op |-> "generate", model |-> FALSE, query |-> original_query,
                    kind |-> "absent", response |-> Raises]
          \/ \E r \in Responses(original_query) :
                inp = [op |-> "generate", model |-> TRUE, query |-> original_query,
                       kind |-> r.kind, response |-> r.response]

GenerateCall ==
    /\ inp.op = "generate"
    /\ ret.op = "none"
    /\ ret' = [op |-> "generate",
               out |-> generate_multi_queries(inp.model, inp.query, inp.response)]
    /\ UNCHANGED <<bm25, fitted, documents_cache, documents_metadata, inp, other_vars>>

NextMQ == GenerateCall

SpecMQ == InitMQ /\ [][NextMQ]_vars

(******************************* reranker **********************************)
\* RetrievalResult(content, source, page, book_title, relevance_score, retrieval_method)
RetrievalResult(content, source, page, book_title, relevance_score, retrieval_method) ==
    [content |-> content, source |-> source, page |-> page, book_title |-> book_title,
     relevance_score |-> relevance_score, retrieval_method |-> retrieval_method]

\* list.sort(key = lambda x: x.relevance_score, reverse = True)
SortByRelevance(results) ==
    LET keyed  == [i \in 1..Len(results) |-> <<results[i], results[i].relevance_score>>]
        sorted == SortDesc(keyed)
    IN  [i \in 1..Len(results) |-> sorted[i][1]]

\* Lines 396-406: the judged score of one response, or an exception.
JudgedScore(response) ==
    IF "raises" \in DOMAIN response THEN [ok |-> FALSE]
    ELSE LET response_text == Strip(response.text)
             cleaned ==
                 IF Contains(response_text, FenceJson)
                 THEN SplitFirst(SplitSecond(response_text, FenceJson), Fence)
                 ELSE response_text
             data == json_loads(Strip(cleaned))
         IN  IF ~data.ok THEN [ok |-> FALSE]
             ELSE IF ~IsDict(data.value) THEN [ok |-> FALSE]
             ELSE LET new_score == Get(data.value.dict, "relevance_score", JNum(Milli \div 2))
                  IN  IF IsNum(new_score) THEN [ok |-> TRUE, score |-> new_score.num]
                      ELSE [ok |-> FALSE]

\* The pass with the judged score alone in place of line 409's average.
RerankOneJudgedOnly(result, response) ==
    LET judged == JudgedScore(response)
    IN  IF judged.ok
        THEN <<RetrievalResult(result.content, result.source, result.page, result.book_title,
                               judged.score, result.retrieval_method)>>
        ELSE <<result>>

\* Lines 390-422: what one pass of the loop appends to reranked.
RerankOne(result, response) ==
    LET judged == JudgedScore(response)
    IN  IF judged.ok
        THEN <<RetrievalResult(result.content, result.source, result.page, result.book_title,
                               (result.relevance_score + judged.score) \div 2,
                               result.retrieval_method)>>
        ELSE <<result>>

\* The loop with an except branch that only logs.
RECURSIVE RerankLoopDropping(_, _)
RerankLoopDropping(results, judge) ==
    IF results = <<>> THEN <<>>
    ELSE (IF JudgedScore(Head(judge)).ok THEN RerankOne(Head(results), Head(judge)) ELSE <<>>)
         \o RerankLoopDropping(Tail(results), Tail(judge))

\* Lines 387-422: reranked after the loop; judge[i] answers the i-th call.
RECURSIVE RerankLoop(_, _)
RerankLoop(results, judge) ==
    IF results = <<>> THEN <<>>
    ELSE RerankOne(Head(results), Head(judge)) \o RerankLoop(Tail(results), Tail(judge))

\* The list rerank_results truncates: results itself without a model.
Reranked(model, results, judge) ==
    IF ~model \/ results = <<>> THEN results
    ELSE SortByRelevance(RerankLoop(results, judge))

rerank_results(model, results, top_k, judge) ==
    PySlice(Reranked(model, results, judge), top_k)

(*********************** reranker: the calls *******************************)
ResultA == RetrievalResult(DocA, "a.pdf", "1", "Book A", 700, "hybrid")
ResultB == RetrievalResult(DocB, "b.pdf", "N/A", "Book B", 300, "semantic")
ResultC == RetrievalResult(<<"dd">>, "unknown", "None", "Unknown", 700, "keyword")
ResultPool == {ResultA, ResultB, ResultC}

ScoreJson(v) == JsonText(JDict([relevance_score |-> v, reason |-> JStr(<<"why">>)]))

JudgePool ==
    {Raises,
     Text(<<Prose>>),
     Text(<<Prose, FenceJson, Ws, ScoreJson(JNum(900)), Ws, Fence>>),
     Text(<<ScoreJson(JNum(100)), Ws>>),
     Text(<<JsonText(JDict([reason |-> JStr(<<"why">>)]))>>),
     Text(<<ScoreJson(JStr(<<"high">>))>>)}

RECURSIVE SeqsOfLen(_, _)
SeqsOfLen(S, n) ==
    IF n = 0 THEN {<<>>}
    ELSE {Append(s, x) : s \in SeqsOfLen(S, n - 1), x \in S}

InitRerank ==
    /\ bm25 = BM25_init
    /\ fitted = <<"never">>
    /\ documents_cache = <<>>
    /\ documents_metadata = <<>>
    /\ NoThreads
    /\ NoRateLimiter
    /\ ret = NoRet
    /\ \E results \in SeqsUpTo(ResultPool, MaxResults), top_k \in 0..MaxK :
          \/ inp = [op |-> "rerank", model |-> FALSE, results |-> results,
                    top_k |-> top_k, judge |-> <<>>]
          \/ \E judge \in SeqsOfLen(JudgePool, Len(results)) :
                inp = [op |-> "rerank", model |-> TRUE, results |-> results,
                       top_k |-> top_k, judge |-> judge]

RerankCall ==
    /\ inp.op = "rerank"
    /\ ret.op = "none"
    /\ ret' = [op |-> "rerank",
               reranked |-> Reranked(inp.model, inp.results, inp.judge),
               out |-> rerank_results(inp.model, inp.results, inp.top_k, inp.judge)]
    /\ UNCHANGED <<bm25, fitted, documents_cache, documents_metadata, inp, other_vars>>

NextRerank == RerankCall

SpecRerank == InitRerank /\ [][NextRerank]_vars

(**************************** hybrid retriever *****************************)
\* A semantic result is a dict (a record) or a plain str ([str |-> text]).
IsDictResult(result) == "str" \notin DOMAIN result

ResultContent(result) ==
    IF IsDictResult(result) THEN Get(result, "content", <<>>) ELSE result.str

\* The results dict of hybrid_search is a sequence of entries in insertion order,
\* one per content.
HasContent(results, content) == \E n \in 1..Len(results) : results[n].content = content

EntryOf(results, content) == CHOOSE n \in 1..Len(results) : results[n].content = content

\* Lines 310-322: the loop over semantic_results, from its i-th element on (i is 0-based).
RECURSIVE SemanticLoop(_, _, _, _)
SemanticLoop(results, semantic_results, i, semantic_weight) ==
    IF i >= Len(semantic_results) THEN results
    ELSE LET result  == semantic_results[i + 1]
             content == ResultContent(result)
             score   == Milli - (i * Milli) \div Len(semantic_results)
             weighted == (score * semantic_weight) \div 10
             next    ==
                 IF ~HasContent(results, content)
                 THEN Append(results,
                             [content |-> content, semantic_score |-> weighted,
                              keyword_score |-> 0,
                              metadata |-> IF IsDictResult(result) THEN result ELSE <<>>])
                 ELSE [results EXCEPT ![EntryOf(results, content)].semantic_score = weighted]
         IN  SemanticLoop(next, semantic_results, i + 1, semantic_weight)

\* Lines 307-324: results after the semantic stage.  semantic is what
\* rag_system.retrieve_relevant_context does: raises, or returns a list.
SemanticChannel(rag_system, semantic, semantic_weight) ==
    IF ~rag_system THEN <<>>
    ELSE IF "raises" \in DOMAIN semantic THEN <<>>
    ELSE SemanticLoop(<<>>, semantic.results, 0, semantic_weight)

\* The smallest score of the batch, in place of line 330's max.
MinBm25Score(bm25_results) ==
    IF bm25_results = <<>> THEN 1
    ELSE CHOOSE m \in {bm25_results[n][2] : n \in 1..Len(bm25_results)} :
             \A n \in 1..Len(bm25_results) : bm25_results[n][2] >= m

\* Line 330: max(r[1] for r in bm25_results) if bm25_results else 1
MaxBm25Score(bm25_results) ==
    IF bm25_results = <<>> THEN 1
    ELSE CHOOSE m \in {bm25_results[n][2] : n \in 1..Len(bm25_results)} :
             \A n \in 1..Len(bm25_results) : bm25_results[n][2] <= m

\* Lines 332-345: the loop over bm25_results, from its n-th element on.
RECURSIVE KeywordLoop(_, _, _, _, _, _, _)
KeywordLoop(results, bm25_results, n, max_bm25_score, keyword_weight, cache, metadata) ==
    IF n > Len(bm25_results) THEN results
    ELSE LET doc_idx    == bm25_results[n][1]
             bm25_score == bm25_results[n][2]
             content    == cache[doc_idx + 1]
             normalized_score ==
                 IF max_bm25_score # 0 THEN (bm25_score * Milli) \div max_bm25_score ELSE 0
             weighted   == (normalized_score * keyword_weight) \div 10
             next ==
                 IF doc_idx >= Len(cache) THEN results
                 ELSE IF ~HasContent(results, content)
                 THEN Append(results,
                             [content |-> content, semantic_score |-> 0,
                              keyword_score |-> weighted,
                              metadata |-> IF doc_idx < Len(metadata)
                                           THEN metadata[doc_idx + 1] ELSE <<>>])
                 ELSE [results EXCEPT ![EntryOf(results, content)].keyword_score = weighted]
         IN  KeywordLoop(next, bm25_results, n + 1, max_bm25_score, keyword_weight,
                         cache, metadata)

\* Lines 327-347: results after the BM25 stage.  self is the RAGPrecisionBoost
\* object, call the arguments; call.fault: self.bm25.search raises.
KeywordChannel(results, self, call) ==
    IF ~self.bm25.initialized THEN results
    ELSE LET found == BM25_search(self.bm25, call.query, call.k * 2)
         IN  IF call.fault \/ found.raised THEN results
             ELSE KeywordLoop(results, found.value, 1, MaxBm25Score(found.value),
                              call.keyword_weight, self.documents_cache,
                              self.documents_metadata)

\* The two weighted scores averaged, in place of line 352's sum.
TotalScoreAveraged(data) == (data.semantic_score + data.keyword_score) \div 2

\* Line 352
TotalScore(data) == data.semantic_score + data.keyword_score

\* Lines 350-365: the list returned for a results dict.
Combine(results, k) ==
    LET combined ==
            [n \in 1..Len(results) |->
                RetrievalResult(results[n].content,
                                Get(results[n].metadata, "source_file", "unknown"),
                                Get(results[n].metadata, "page", "None"),
                                Get(results[n].metadata, "book_title", "Unknown"),
                                TotalScore(results[n]),
                                "hybrid")]
    IN  PySlice(SortByRelevance(combined), k)

\* The results dict hybrid_search combines.
HybridResults(self, call) ==
    KeywordChannel(SemanticChannel(self.rag_system, call.semantic, call.semantic_weight),
                   self, call)

\* hybrid_search with one try block around both stages: an exception of the
\* semantic stage skips the BM25 stage.
hybrid_search_one_try(self, call) ==
    IF self.rag_system /\ "raises" \in DOMAIN call.semantic THEN <<>>
    ELSE Combine(HybridResults(self, call), call.k)

\* hybrid_search(db, query, k, semantic_weight, keyword_weight)
hybrid_search(self, call) == Combine(HybridResults(self, call), call.k)

(********************** hybrid retriever: the calls ************************)
HDocA == [content |-> DocA, source_file |-> "a.pdf", page |-> "1", book_title |-> "Book A"]
HDocB == [content |-> DocB, source_file |-> "b.pdf"]
HDocPool == {HDocA, HDocB}

SemA == [content |-> DocA, source_file |-> "a.pdf", book_title |-> "Book A",
         author |-> "Unknown", page |-> "1", chunk_id |-> "a_0"]
SemD == [str |-> <<"dd">>]
SemPool == {SemA, SemD}

HybridQueries == {<<"lo", "au", "tho">>, <<"xx">>}

\* semantic_weight and keyword_weight, in tenths.
WeightPairs == {<<7, 3>>, <<10, 0>>}

InitHybrid ==
    /\ bm25 = BM25_init
    /\ fitted = <<"never">>
    /\ documents_cache = <<>>
    /\ documents_metadata = <<>>
    /\ NoThreads
    /\ NoRateLimiter
    /\ ret = NoRet
    /\ \E documents \in SeqsUpTo(HDocPool, MaxDocs), query \in HybridQueries,
          k \in 0..MaxK, w \in WeightPairs, fault \in BOOLEAN,
          semantic \in {Raises} \cup {[results |-> r] : r \in SeqsUpTo(SemPool, MaxResults)},
          rag_system \in BOOLEAN :
          /\ ~rag_system => semantic = [results |-> <<>>]
          /\ inp = [op |-> "hybrid", documents |-> documents, rag_system |-> rag_system,
                    query |-> query, k |-> k, semantic_weight |-> w[1],
                    keyword_weight |-> w[2], semantic |-> semantic, fault |-> fault]

\* initialize_bm25(documents)
InitializeBm25 ==
    /\ inp.op \in {"hybrid", "retrieve", "embed"}
    /\ ret.op = "none"
    /\ ~bm25.initialized
    /\ LET contents == [n \in 1..Len(inp.documents) |->
                           Get(inp.documents[n], "content", <<>>)]
       IN  /\ documents_cache' = contents
           /\ documents_metadata' = inp.documents
           /\ bm25' = BM25_fit(bm25, contents)
           /\ fitted' = contents
    /\ UNCHANGED <<inp, ret, other_vars>>

\* The RAGPrecisionBoost object of the call.
Self ==
    [rag_system |-> inp.rag_system, bm25 |-> bm25, documents_cache |-> documents_cache,
     documents_metadata |-> documents_metadata]

HybridCall ==
    /\ inp.op = "hybrid"
    /\ ret.op = "none"
    /\ ret' = [op |-> "hybrid",
               results |-> HybridResults(Self, inp),
               out |-> hybrid_search(Self, inp)]
    /\ UNCHANGED <<bm25, fitted, documents_cache, documents_metadata, inp, other_vars>>

NextHybrid == InitializeBm25 \/ HybridCall

SpecHybrid == InitHybrid /\ [][NextHybrid]_vars

(********************** vector store (TherapeuticRAG) **********************)
\* A row of the knowledge_documents table: content, source_file and
\* doc_metadata, a dict ([dict |-> d]) or a str that json.loads rejects
\* ([str |-> text]).
ContextOf(doc) ==
    IF "dict" \in DOMAIN doc.doc_metadata
    THEN LET metadata == doc.doc_metadata.dict
         IN  [content |-> doc.content, source_file |-> doc.source_file,
              book_title |-> Get(metadata, "book_title", "Unknown"),
              author |-> Get(metadata, "author", "Unknown"),
              page |-> Get(metadata, "page", "N/A"),
              chunk_id |-> Get(metadata, "chunk_id", "unknown")]
    ELSE [content |-> doc.content, source_file |-> doc.source_file,
          book_title |-> "Unknown", author |-> "Unknown", page |-> "N/A",
          chunk_id |-> "unknown"]

\* The try block of retrieve_relevant_context.  store is what the embedding
\* client and the database do for the query: one of them raises, the embedding
\* client gives no vector, or the database has rows (nearest first), of which
\* limit(k) keeps k.
RetrieveTry(store, k) ==
    IF "raises" \in DOMAIN store THEN [raised |-> TRUE, value |-> <<>>]
    ELSE IF "no_embedding" \in DOMAIN store THEN [raised |-> FALSE, value |-> <<>>]
    ELSE LET results == SubSeq(store.rows, 1, Min(k, Len(store.rows)))
         IN  [raised |-> FALSE,
              value |-> [n \in 1..Len(results) |-> ContextOf(results[n])]]

\* retrieve_relevant_context without its outer except.
retrieve_relevant_context_unguarded(store, k) == RetrieveTry(store, k)

\* retrieve_relevant_context(db, query, k)
retrieve_relevant_context(store, k) ==
    IF RetrieveTry(store, k).raised THEN [raised |-> FALSE, value |-> <<>>]
    ELSE RetrieveTry(store, k)

(************************ retrieve_with_precision **************************)
\* The answer to the i-th call of a collaborator whose answers are given by
\* pattern, repeated from its start.
Answer(pattern, i) == pattern[((i - 1) % Len(pattern)) + 1]

\* Lines 462-478: the results of q, the i-th query of the call.
QueryResults(self, call, q, i) ==
    LET found == retrieve_relevant_context(Answer(call.store, i), call.k * 2)
    IN  IF call.use_hybrid
        THEN [raised |-> FALSE,
              value |-> hybrid_search(self,
                            [query |-> IF IsStr(q) THEN q.str ELSE <<>>,
                             k |-> call.k * 2, semantic_weight |-> 7, keyword_weight |-> 3,
                             semantic |-> IF found.raised THEN Raises
                                          ELSE [results |-> found.value],
                             fault |-> ~IsStr(q)])]
        ELSE IF self.rag_system
        THEN IF found.raised THEN [raised |-> TRUE, value |-> <<>>]
             ELSE [raised |-> FALSE,
                   value |-> [n \in 1..Len(found.value) |->
                       LET r == found.value[n]
                       IN  IF IsDictResult(r)
                           THEN RetrievalResult(Get(r, "content", <<>>),
                                                Get(r, "source_file", "unknown"),
                                                Get(r, "page", "None"),
                                                Get(r, "book_title", "Unknown"),
                                                Milli \div 2, "semantic")
                           ELSE RetrievalResult(r.str, "unknown", "None", "Unknown",
                                                Milli \div 2, "semantic")]]
        ELSE [raised |-> FALSE, value |-> <<>>]

\* The boost of line 486 at full weight.
BoostFull(score, again) == score + again

\* Line 486: relevance_score += result.relevance_score * 0.5
Boost(score, again) == score + again \div 2

\* The merge without the test of line 482: every result is a new entry.
MergeLoopAppending(all_results, results) == all_results \o results

\* Lines 481-486: all_results (in insertion order) after merging results.
RECURSIVE MergeLoop(_, _)
MergeLoop(all_results, results) ==
    IF results = <<>> THEN all_results
    ELSE LET result == Head(results)
             next ==
                 IF ~HasContent(all_results, result.content)
                 THEN Append(all_results, result)
                 ELSE [all_results EXCEPT
                          ![EntryOf(all_results, result.content)].relevance_score =
                              Boost(@, result.relevance_score)]
         IN  MergeLoop(next, Tail(results))

\* Lines 461-486: the loop over the first i queries; an exception ends it.
RECURSIVE QueryLoop(_, _, _, _)
QueryLoop(self, call, queries, i) ==
    IF i = 0 THEN [raised |-> FALSE, all_results |-> <<>>, per_query |-> <<>>]
    ELSE LET before == QueryLoop(self, call, queries, i - 1)
             found  == QueryResults(self, call, queries[i], i)
         IN  IF before.raised THEN before
             ELSE IF found.raised THEN [before EXCEPT !.raised = TRUE]
             ELSE [raised |-> FALSE,
                   all_results |-> MergeLoop(before.all_results, found.value),
                   per_query |-> Append(before.per_query, found.value)]

\* Line 494 passing every merged candidate to the reranker.
RerankInputAll(merged_results, k) == merged_results

\* Line 494: merged_results[:k*2]
RerankInput(merged_results, k) == PySlice(merged_results, k * 2)

\* retrieve_with_precision(db, query, k, use_multi_query, use_hybrid,
\* use_rerank) with the values it computes on the way: the queries, the results
\* of each, the sorted merged_results, the list given to the reranker and the
\* number of judge calls.
RetrieveTrace(self, call) ==
    LET queries ==
            IF call.use_multi_query
            THEN generate_multi_queries(self.model, call.query, call.response)
            ELSE <<JStr(call.query)>>
        looped == QueryLoop(self, call, queries, Len(queries))
        merged_results == SortByRelevance(looped.all_results)
        given == RerankInput(merged_results, call.k)
        judge == [i \in 1..Len(given) |-> Answer(call.judge, i)]
        final_results ==
            IF call.use_rerank THEN rerank_results(self.model, given, call.k, judge)
            ELSE PySlice(merged_results, call.k)
    IN  IF looped.raised
        THEN [raised |-> TRUE, queries |-> queries, per_query |-> looped.per_query,
              merged_results |-> <<>>, given |-> <<>>, judge_calls |-> 0, value |-> <<>>]
        ELSE [raised |-> FALSE, queries |-> queries, per_query |-> looped.per_query,
              merged_results |-> merged_results,
              given |-> IF call.use_rerank THEN given ELSE <<>>,
              judge_calls |-> IF call.use_rerank /\ self.model THEN Len(given) ELSE 0,
              value |-> final_results]

\* retrieve_with_precision raising when nothing was retrieved.
retrieve_with_precision_nonempty(self, call) ==
    IF RetrieveTrace(self, call).value = <<>> THEN [raised |-> TRUE, value |-> <<>>]
    ELSE [raised |-> FALSE, value |-> RetrieveTrace(self, call).value]

retrieve_with_precision(self, call) ==
    [raised |-> RetrieveTrace(self, call).raised, value |-> RetrieveTrace(self, call).value]

(**************************** citations ************************************)
\* Line 524: the separator, one unit of the context string.
Separator == "\n\n---\n\n"

\* sep.join(parts)
RECURSIVE Join(_, _)
Join(sep, parts) ==
    IF parts = <<>> THEN <<>>
    ELSE IF Len(parts) = 1 THEN parts[1]
    ELSE parts[1] \o <<sep>> \o Join(sep, Tail(parts))

\* get_context_with_citations with enumerate(results) in place of
\* enumerate(results, 1).
get_context_with_citations_from_zero(results) ==
    [context_string |-> Join(Separator, [i \in 1..Len(results) |-> results[i].content]),
     citations |-> [i \in 1..Len(results) |->
                       [index |-> i - 1, source |-> results[i].source,
                        page |-> results[i].page, book_title |-> results[i].book_title,
                        relevance |-> results[i].relevance_score]]]

\* get_context_with_citations(results): (context_string, citations)
get_context_with_citations(results) ==
    [context_string |-> Join(Separator, [i \in 1..Len(results) |-> results[i].content]),
     citations |-> [i \in 1..Len(results) |->
                       [index |-> i, source |-> results[i].source,
                        page |-> results[i].page, book_title |-> results[i].book_title,
                        relevance |-> results[i].relevance_score]]]

(****************** retrieve_with_precision: the calls *********************)
RowA == [content |-> DocA, source_file |-> "a.pdf",
         doc_metadata |-> [dict |-> [book_title |-> "Book A", page |-> "1",
                                     chunk_id |-> "a_0"]]]
RowD == [content |-> <<"dd">>, source_file |-> "d.pdf", doc_metadata |-> [str |-> "{"]]

\* What the embedding client and the database do for the queries of one call,
\* in call order.
StorePatterns ==
    {<<[rows |-> <<RowA, RowD>>]>>,
     <<[rows |-> <<>>]>>,
     <<Raises>>,
     <<[rows |-> <<RowA, RowD>>], Raises>>,
     <<[no_embedding |-> TRUE], [rows |-> <<RowD, RowA>>]>>,
     <<[rows |-> <<RowA, RowA>>]>>}

\* What the judge answers to the passages of one call, in call order.
JudgePatterns ==
    {<<Raises>>,
     <<Text(<<ScoreJson(JNum(900))>>)>>,
     <<Text(<<ScoreJson(JNum(100))>>), Raises>>,
     <<Text(<<Prose>>), Text(<<ScoreJson(JNum(900))>>)>>}

RetrieveQueries == {<<"buon">>, <<"lo", "au", "tho">>}

RetrieveResponses(query) ==
    {Raises,
     Text(<<QueriesJson(JList(<<JStr(query), JStr(<<"xx">>)>>))>>),
     Text(<<QueriesJson(JList(<<JNum(3)>>))>>)}

RetrieveCorpora == {<<>>, <<HDocA, HDocB>>}

InitRetrieve ==
    /\ bm25 = BM25_init
    /\ fitted = <<"never">>
    /\ documents_cache = <<>>
    /\ documents_metadata = <<>>
    /\ NoThreads
    /\ NoRateLimiter
    /\ ret = NoRet
    /\ \E query \in RetrieveQueries, k \in 0..MaxRetrieveK, documents \in RetrieveCorpora,
          use_multi_query \in BOOLEAN, use_hybrid \in BOOLEAN, use_rerank \in BOOLEAN,
          model \in BOOLEAN, rag_system \in BOOLEAN,
          store \in StorePatterns, judge \in JudgePatterns :
          \E response \in RetrieveResponses(query) :
          \* a collaborator that is not called answers nothing
          /\ ~(model /\ use_multi_query) => response = Raises
          /\ ~(model /\ use_rerank) => judge = <<Raises>>
          /\ ~rag_system => store = <<Raises>>
          /\ inp = [op |-> "retrieve", query |-> query, k |-> k, documents |-> documents,
                    use_multi_query |-> use_multi_query, use_hybrid |-> use_hybrid,
                    use_rerank |-> use_rerank, model |-> model, rag_system |-> rag_system,
                    response |-> response, store |-> store, judge |-> judge]

\* The RAGPrecisionBoost object of the call.
PrecisionSelf ==
    [model |-> inp.model, rag_system |-> inp.rag_system, bm25 |-> bm25,
     documents_cache |-> documents_cache, documents_metadata |-> documents_metadata]

RetrieveCall ==
    /\ inp.op = "retrieve"
    /\ ret.op = "none"
    /\ ret' = [op |-> "retrieve",
               trace |-> RetrieveTrace(PrecisionSelf, inp),
               out |-> retrieve_with_precision(PrecisionSelf, inp)]
    /\ UNCHANGED <<bm25, fitted, documents_cache, documents_metadata, inp, other_vars>>

\* get_context_with_citations on the list retrieve_with_precision returned.
CitationsCall ==
    /\ ret.op = "retrieve"
    /\ ~ret.out.raised
    /\ ret' = [op |-> "citations", results |-> ret.out.value,
               out |-> get_context_with_citations(ret.out.value)]
    /\ UNCHANGED <<bm25, fitted, documents_cache, documents_metadata, inp, other_vars>>

NextRetrieve == InitializeBm25 \/ RetrieveCall \/ CitationsCall

SpecRetrieve == InitRetrieve /\ [][NextRetrieve]_vars

(*************************** semantic chunkers *****************************)
\* A text is the sequence of its characters.
Whitespace == {" ", "\n", "\t"}
SentenceEnd == {".", "!", "?"}
\* The capital letters and the digits among the characters used here.
Capitals == {"A"}
Digits == {"1"}

\* The index of the last character of the run of characters of S that starts
\* at text[i]; i - 1 when text[i] is not in S.
RECURSIVE RunEnd(_, _, _)
RunEnd(text, i, S) ==
    IF i <= Len(text) /\ text[i] \in S THEN RunEnd(text, i + 1, S) ELSE i - 1

\* str.strip()
RECURSIVE LStripChars(_)
LStripChars(text) ==
    IF text # <<>> /\ Head(text) \in Whitespace THEN LStripChars(Tail(text)) ELSE text

RECURSIVE RStripChars(_)
RStripChars(text) ==
    IF text # <<>> /\ text[Len(text)] \in Whitespace
    THEN RStripChars(SubSeq(text, 1, Len(text) - 1)) ELSE text

StripChars(text) == LStripChars(RStripChars(text))

\* sorted(S) for a set of integers
RECURSIVE SortedSeq(_)
SortedSeq(S) ==
    IF S = {} THEN <<>>
    ELSE LET least == CHOOSE x \in S : \A y \in S : x <= y
         IN  <<least>> \o SortedSeq(S \ {least})

\* _estimate_tokens(text)
estimate_tokens(text) == Len(text) \div 4

\* _find_semantic_boundaries(text): match.end() of every match of the four
\* patterns, with 0 and len(text), sorted.
find_semantic_boundaries(text) ==
    LET n == Len(text)
        paragraphs ==
            {RunEnd(text, i, {"\n"}) : i \in {j \in 1..(n - 1) :
                /\ text[j] = "\n" /\ text[j + 1] = "\n"
                /\ (j = 1 \/ text[j - 1] # "\n")}}
        newline_capital ==
            {i \in 1..(n - 1) : text[i] = "\n" /\ text[i + 1] \in Capitals \cup Digits}
        period_capital ==
            {i + 1 : i \in {j \in 1..(n - 2) :
                text[j] = "." /\ text[j + 1] = " " /\ text[j + 2] \in Capitals}}
        sentences ==
            {RunEnd(text, i + 1, Whitespace) : i \in {j \in 1..(n - 1) :
                text[j] \in SentenceEnd /\ text[j + 1] \in Whitespace}}
    IN  SortedSeq({0, n} \cup paragraphs \cup newline_capital \cup period_capital
                  \cup sentences)

\* The dict chunk appends for current_chunk_text.
ChunkDict(current_chunk_text, start, end) ==
    [content |-> StripChars(current_chunk_text), start |-> start, end |-> end,
     tokens |-> estimate_tokens(current_chunk_text)]

\* The overflow branch with line 614 setting current_chunk_start to the
\* boundary, the overlap not counted.
ChunkOverflowNoShift(self, st, segment, boundary) ==
    LET overlap_size == (Len(st.text) * self.overlap_percentage) \div 100
        overlap_text ==
            IF overlap_size > 0
            THEN SubSeq(st.text, Len(st.text) - overlap_size + 1, Len(st.text))
            ELSE <<>>
    IN  [chunks |-> IF StripChars(st.text) # <<>>
                    THEN Append(st.chunks, ChunkDict(st.text, st.start, boundary))
                    ELSE st.chunks,
         start |-> boundary,
         text |-> overlap_text \o segment]

\* Lines 600-615: the branch taken when the potential chunk has more than
\* max_chunk_size tokens; boundary is boundaries[i-1].
ChunkOverflow(self, st, segment, boundary) ==
    LET overlap_size == (Len(st.text) * self.overlap_percentage) \div 100
        overlap_text ==
            IF overlap_size > 0
            THEN SubSeq(st.text, Len(st.text) - overlap_size + 1, Len(st.text))
            ELSE <<>>
    IN  [chunks |-> IF StripChars(st.text) # <<>>
                    THEN Append(st.chunks, ChunkDict(st.text, st.start, boundary))
                    ELSE st.chunks,
         start |-> boundary - Len(overlap_text),
         text |-> overlap_text \o segment]

\* Lines 594-617: chunks, current_chunk_start and current_chunk_text after the
\* first i segments.
RECURSIVE ChunkLoop(_, _, _, _)
ChunkLoop(self, text, boundaries, i) ==
    IF i = 0 THEN [chunks |-> <<>>, start |-> 0, text |-> <<>>]
    ELSE LET st      == ChunkLoop(self, text, boundaries, i - 1)
             segment == SubSeq(text, boundaries[i] + 1, boundaries[i + 1])
             potential_chunk == st.text \o segment
         IN  IF estimate_tokens(potential_chunk) > self.max_chunk_size
             THEN ChunkOverflow(self, st, segment, boundaries[i])
             ELSE [st EXCEPT !.text = potential_chunk]

\* SemanticChunker.chunk(text) of layers/rag_precision.py; self holds
\* min_chunk_size, max_chunk_size and overlap_percentage (in hundredths).
chunk(self, text) ==
    LET boundaries == find_semantic_boundaries(text)
        st == ChunkLoop(self, text, boundaries, Len(boundaries) - 1)
    IN  IF StripChars(st.text) # <<>>
        THEN Append(st.chunks, ChunkDict(st.text, st.start, Len(text)))
        ELSE st.chunks

\* SENTENCE_ENDINGS.split(text): the pieces between the matches of the
\* sentence-end pattern; cur is the piece being read.
RECURSIVE RegexSplit(_, _)
RegexSplit(rest, cur) ==
    IF rest = <<>> THEN <<cur>>
    ELSE IF Head(rest) \in SentenceEnd /\ Len(rest) >= 2 /\ rest[2] \in Whitespace
         THEN <<cur>> \o RegexSplit(SubSeq(rest, RunEnd(rest, 2, Whitespace) + 1, Len(rest)),
                                    <<>>)
    ELSE RegexSplit(Tail(rest), Append(cur, Head(rest)))

\* split_into_sentences(text) of load_kb_enhanced.py
split_into_sentences(text) ==
    LET sentences == RegexSplit(text, <<>>)
        stripped  == [i \in 1..Len(sentences) |-> StripChars(sentences[i])]
        NonEmpty(s) == s # <<>>
    IN  SelectSeq(stripped, NonEmpty)

\* find_headings(text): every pattern of HEADING_PATTERNS needs a '#', a digit
\* or a capital letter at the start of a line; a text without them has no
\* heading, and only such texts are chunked by sentences here.
find_headings(text) == <<>>

\* get_heading_for_position(pos): the last heading at or before pos, or None.
get_heading_for_position(headings, pos) ==
    LET before == {n \in 1..Len(headings) : \A m \in 1..n : headings[m][1] <= pos}
    IN  IF before = {} THEN "None"
        ELSE headings[CHOOSE n \in before : \A m \in before : m <= n][2]

\* Lines 337-344: the trailing sentences of current_chunk kept as overlap;
\* size is the length already kept.
RECURSIVE OverlapSentences(_, _, _)
OverlapSentences(current_chunk, overlap, size) ==
    IF current_chunk = <<>> THEN <<>>
    ELSE LET s == current_chunk[Len(current_chunk)]
         IN  IF size + Len(s) <= overlap
             THEN Append(OverlapSentences(SubSeq(current_chunk, 1, Len(current_chunk) - 1),
                                          overlap, size + Len(s)), s)
             ELSE <<>>

\* Lines 323-356: the loop after the first i sentences.
RECURSIVE SentenceLoop(_, _, _, _)
SentenceLoop(cfg, sentences, headings, i) ==
    IF i = 0
    THEN [chunks |-> <<>>, current_chunk |-> <<>>, current_size |-> 0,
          current_heading |-> "None", char_position |-> 0]
    ELSE LET st == SentenceLoop(cfg, sentences, headings, i - 1)
             sentence == sentences[i]
             sentence_len == Len(sentence)
             chunk_text == Join(" ", st.current_chunk)
             overlap_sentences == OverlapSentences(st.current_chunk, cfg.overlap, 0)
             closed ==
                 IF st.current_size + sentence_len > cfg.target_size
                    /\ st.current_size >= cfg.min_size
                 THEN [st EXCEPT
                          !.chunks = IF StripChars(chunk_text) # <<>>
                                     THEN Append(@, [content |-> chunk_text,
                                                     type |-> "content",
                                                     heading |-> st.current_heading])
                                     ELSE @,
                          !.current_chunk = overlap_sentences,
                          !.current_size =
                              SumSeq([n \in 1..Len(overlap_sentences) |->
                                         Len(overlap_sentences[n])])]
                 ELSE st
             heading == get_heading_for_position(headings, st.char_position)
         IN  [closed EXCEPT
                 !.current_heading = IF heading # "None" THEN heading ELSE @,
                 !.current_chunk = Append(@, sentence),
                 !.current_size = @ + sentence_len,
                 !.char_position = @ + sentence_len + 1]

\* SemanticChunker.semantic_chunk(text, target_size, min_size, overlap) of
\* load_kb_enhanced.py; cfg holds the three sizes.
semantic_chunk(cfg, text) ==
    LET sentences == split_into_sentences(text)
        st == SentenceLoop(cfg, sentences, find_headings(text), Len(sentences))
        chunk_text == Join(" ", st.current_chunk)
    IN  IF st.current_chunk # <<>> /\ StripChars(chunk_text) # <<>>
           /\ Len(chunk_text) >= cfg.min_size
        THEN Append(st.chunks, [content |-> chunk_text, type |-> "content",
                                heading |-> st.current_heading])
        ELSE st.chunks

(*********************** semantic chunkers: the calls **********************)
Letters(n) == [i \in 1..n |-> "a"]

\* The pieces the texts are made of: a short and a long sentence, a line break
\* before a capital, a paragraph break.
Pieces ==
    {Letters(2) \o <<".", " ">>,
     Letters(10) \o <<".", " ">>,
     <<"a", "\n", "A">>,
     <<"a", "\n", "\n">>}

RECURSIVE Concat(_)
Concat(parts) == IF parts = <<>> THEN <<>> ELSE Head(parts) \o Concat(Tail(parts))

Texts(pieces) == {Concat(parts) : parts \in SeqsUpTo(pieces, MaxPieces)}

\* min_chunk_size and max_chunk_size in tokens, overlap_percentage in hundredths
ChunkerConfigs ==
    {[min_chunk_size |-> 2, max_chunk_size |-> 3, overlap_percentage |-> 15],
     [min_chunk_size |-> 1, max_chunk_size |-> 2, overlap_percentage |-> 50],
     [min_chunk_size |-> 1, max_chunk_size |-> 5, overlap_percentage |-> 0]}

\* target_size, min_size and overlap in characters
SentenceConfigs ==
    {[target_size |-> 8, min_size |-> 3, overlap |-> 3],
     [target_size |-> 14, min_size |-> 2, overlap |-> 0],
     [target_size |-> 14, min_size |-> 12, overlap |-> 10]}

InitChunk ==
    /\ bm25 = BM25_init
    /\ fitted = <<"never">>
    /\ documents_cache = <<>>
    /\ documents_metadata = <<>>
    /\ NoThreads
    /\ NoRateLimiter
    /\ ret = NoRet
    /\ \/ \E text \in Texts(Pieces), self \in ChunkerConfigs :
             inp = [op |-> "chunk", self |-> self, text |-> text]
       \/ \E text \in Texts({p \in Pieces : \A i \in 1..Len(p) : p[i] \notin Capitals \cup Digits}),
             cfg \in SentenceConfigs :
             inp = [op |-> "semantic_chunk", cfg |-> cfg, text |-> text]

ChunkCall ==
    /\ inp.op = "chunk"
    /\ ret.op = "none"
    /\ ret' = [op |-> "chunk", out |-> chunk(inp.self, inp.text)]
    /\ UNCHANGED <<bm25, fitted, documents_cache, documents_metadata, inp, other_vars>>

SemanticChunkCall ==
    /\ inp.op = "semantic_chunk"
    /\ ret.op = "none"
    /\ ret' = [op |-> "semantic_chunk", out |-> semantic_chunk(inp.cfg, inp.text)]
    /\ UNCHANGED <<bm25, fitted, documents_cache, documents_metadata, inp, other_vars>>

NextChunk == ChunkCall \/ SemanticChunkCall

SpecChunk == InitChunk /\ [][NextChunk]_vars

(*************************** embedding client ******************************)
\* rag_system_v2.py, TherapeuticRAG.  service is what genai.embed_content does
\* on its calls, in call order: it raises, or it returns a response, with or
\* without the key 'embedding'.
MaxRetry == 3

None == [none |-> TRUE]

DefaultRetryCount == 3

\* create_embedding with no except clause: the first failed attempt raises.
create_embedding_uncaught(service, retry_count) ==
    IF retry_count <= 0 THEN [raised |-> FALSE, calls |-> 0, value |-> None]
    ELSE IF "embedding" \in DOMAIN Answer(service, 1)
    THEN [raised |-> FALSE, calls |-> 1, value |-> Answer(service, 1).embedding]
    ELSE [raised |-> TRUE, calls |-> 1, value |-> None]

\* Lines 157-173: the loop from its iteration attempt on.
RECURSIVE EmbedLoop(_, _, _)
EmbedLoop(service, retry_count, attempt) ==
    IF attempt >= retry_count THEN [raised |-> FALSE, calls |-> attempt, value |-> None]
    ELSE LET response == Answer(service, attempt + 1)
         IN  IF "embedding" \in DOMAIN response
             THEN [raised |-> FALSE, calls |-> attempt + 1, value |-> response.embedding]
             ELSE IF attempt < retry_count - 1
             THEN EmbedLoop(service, retry_count, attempt + 1)
             ELSE [raised |-> FALSE, calls |-> attempt + 1, value |-> None]

\* create_embedding(text, retry_count)
create_embedding(service, retry_count) == EmbedLoop(service, retry_count, 0)

\* Lines 314-325: what the embedding client and the database do for the query,
\* given the service and what db.query does.
QueryStore(service, db) ==
    LET query_embedding == create_embedding(service, DefaultRetryCount)
    IN  IF query_embedding.raised THEN Raises
        ELSE IF query_embedding.value = None THEN [no_embedding |-> TRUE]
        ELSE db

\* The number of db.query calls of retrieve_relevant_context.
DbQueries(service) ==
    LET query_embedding == create_embedding(service, DefaultRetryCount)
    IN  IF ~query_embedding.raised /\ query_embedding.value # None THEN 1 ELSE 0

(************************ embedding client: calls **************************)
EmbedOutcomes ==
    {Raises, [model |-> "m"], [embedding |-> [vector |-> "v1"]],
     [embedding |-> [vector |-> "v2"]]}

EmbedServices == SeqsUpTo(EmbedOutcomes, MaxRetry) \ {<<>>}

InitEmbed ==
    /\ bm25 = BM25_init
    /\ fitted = <<"never">>
    /\ documents_cache = <<>>
    /\ documents_metadata = <<>>
    /\ NoThreads
    /\ NoRateLimiter
    /\ ret = NoRet
    /\ \E service \in EmbedServices, retry_count \in 0..MaxRetry,
          db \in {Raises, [rows |-> <<RowA, RowD>>]} :
          inp = [op |-> "embed", service |-> service, retry_count |-> retry_count,
                 db |-> db, query |-> <<"lo", "au", "tho">>, k |-> 2,
                 documents |-> <<HDocA, HDocB>>, rag_system |-> TRUE]

CreateEmbeddingCall ==
    /\ inp.op = "embed"
    /\ ret.op = "none"
    /\ ret' = [op |-> "create_embedding",
               out |-> create_embedding(inp.service, inp.retry_count)]
    /\ UNCHANGED <<bm25, fitted, documents_cache, documents_metadata, inp, other_vars>>

RetrieveContextCall ==
    /\ inp.op = "embed"
    /\ ret.op = "none"
    /\ ret' = [op |-> "retrieve_relevant_context",
               db_queries |-> DbQueries(inp.service),
               out |-> retrieve_relevant_context(QueryStore(inp.service, inp.db), inp.k)]
    /\ UNCHANGED <<bm25, fitted, documents_cache, documents_metadata, inp, other_vars>>

\* The arguments of hybrid_search whose semantic stage gets found.
EmbedHybridArgs(found) ==
    [query |-> inp.query, k |-> inp.k, semantic_weight |-> 7, keyword_weight |-> 3,
     semantic |-> IF found.raised THEN Raises ELSE [results |-> found.value],
     fault |-> FALSE]

\* hybrid_search on a RAGPrecisionBoost whose rag_system is the TherapeuticRAG.
EmbedHybridCall ==
    /\ inp.op = "embed"
    /\ ret.op = "none"
    /\ ret' = [op |-> "hybrid_search",
               db_queries |-> DbQueries(inp.service),
               out |-> hybrid_search(Self,
                           EmbedHybridArgs(
                               retrieve_relevant_context(QueryStore(inp.service, inp.db),
                                                         inp.k * 2)))]
    /\ UNCHANGED <<bm25, fitted, documents_cache, documents_metadata, inp, other_vars>>

NextEmbed == InitializeBm25 \/ CreateEmbeddingCall \/ RetrieveContextCall \/ EmbedHybridCall

SpecEmbed == InitEmbed /\ [][NextEmbed]_vars

(*********************** BM25 under concurrent calls ***********************)
\* The statements of fit, score and search, taken one at a time by threads
\* that share one BM25 object.  A thread is a record: pc is the statement it
\* is at, the other fields are the locals of its call; overlapped (a
\* statement of fit ran during the call) and index0 (the object when the call
\* began, kept while the call is not overlapped) are history.

\* fit(documents), lines 62-86: the object and the thread after the statement
\* the thread is at.
FitStep(self, t) ==
    CASE t.pc = "start" ->
            [self |-> [self EXCEPT !.doc_count = Len(t.documents)],
             t |-> [t EXCEPT !.pc = "doc_len"]]
      [] t.pc = "doc_len" ->
            [self |-> [self EXCEPT !.doc_len = <<>>],
             t |-> [t EXCEPT !.pc = "doc_freqs"]]
      [] t.pc = "doc_freqs" ->
            [self |-> [self EXCEPT !.doc_freqs = <<>>],
             t |-> [t EXCEPT !.pc = IF t.documents = <<>> THEN "avgdl" ELSE "append_len"]]
      [] t.pc = "append_len" ->
            [self |-> [self EXCEPT !.doc_len =
                          Append(@, Len(tokenize(t.documents[t.i])))],
             t |-> [t EXCEPT !.pc = "append_freqs"]]
      [] t.pc = "append_freqs" ->
            [self |-> [self EXCEPT !.doc_freqs =
                          Append(@, Counter(tokenize(t.documents[t.i])))],
             t |-> [t EXCEPT !.i = @ + 1,
                             !.pc = IF t.i = Len(t.documents) THEN "avgdl"
                                    ELSE "append_len"]]
      [] t.pc = "avgdl" ->
            [self |-> [self EXCEPT !.avgdl =
                          IF self.doc_count # 0
                          THEN (SumSeq(self.doc_len) * Milli) \div self.doc_count
                          ELSE 0],
             t |-> [t EXCEPT !.pc = "idf"]]
      [] t.pc = "idf" ->
            [self |-> [self EXCEPT !.idf = BM25_fit(self, t.documents).idf],
             t |-> [t EXCEPT !.pc = "initialized"]]
      [] t.pc = "initialized" ->
            [self |-> [self EXCEPT !.initialized = TRUE],
             t |-> [t EXCEPT !.pc = "done"]]

\* The thread t finished with out.
Done(t, out) == [t EXCEPT !.pc = "done", !.out = out]

IndexError == [raised |-> TRUE, value |-> 0]

\* score(query, doc_index), lines 107-127: the thread after the statement it
\* is at.
ScoreStep(self, t) ==
    CASE t.pc = "start" ->
            IF ~self.initialized THEN Done(t, [raised |-> FALSE, value |-> 0])
            ELSE [t EXCEPT !.pc = "doc_freqs"]
      [] t.pc = "doc_freqs" ->
            IF PyIndex(Len(self.doc_freqs), t.arg) = 0 THEN Done(t, IndexError)
            ELSE [t EXCEPT !.pc = "doc_len",
                           !.doc_freqs = self.doc_freqs[PyIndex(Len(self.doc_freqs), t.arg)]]
      [] t.pc = "doc_len" ->
            IF PyIndex(Len(self.doc_len), t.arg) = 0 THEN Done(t, IndexError)
            ELSE [t EXCEPT !.pc = "loop",
                           !.doc_len = self.doc_len[PyIndex(Len(self.doc_len), t.arg)]]
      [] t.pc = "loop" ->
            Done(t, ScoreLoop(self, tokenize(t.query), t.doc_freqs, t.doc_len))

\* search(query, top_k), lines 139-146: the thread after the statement it is
\* at; each call of score is one statement.
SearchStep(self, t) ==
    CASE t.pc = "start" ->
            IF ~self.initialized THEN Done(t, [raised |-> FALSE, value |-> <<>>])
            ELSE [t EXCEPT !.pc = "range"]
      [] t.pc = "range" ->
            [t EXCEPT !.pc = "score", !.n = self.doc_count, !.i = 0]
      [] t.pc = "score" ->
            IF t.i >= t.n
            THEN Done(t, [raised |-> FALSE, value |-> PySlice(SortDesc(t.scores), t.arg)])
            ELSE IF BM25_score(self, t.query, t.i).raised
            THEN Done(t, [raised |-> TRUE, value |-> <<>>])
            ELSE [t EXCEPT !.i = @ + 1,
                           !.scores = Append(@, <<t.i, BM25_score(self, t.query, t.i).value>>)]

ReaderStep(self, t) == IF t.op = "score" THEN ScoreStep(self, t) ELSE SearchStep(self, t)

\* The object after the statement a reading thread is at.
ReaderIndex(self, t) ==
    IF t.op = "score" /\ t.pc = "loop" THEN BM25_score_state(self, t.query, t.arg)
    ELSE IF t.op = "search" /\ t.pc = "score" /\ t.i < t.n
    THEN BM25_score_state(self, t.query, t.i)
    ELSE self

\* fit has run a statement and not yet its last.
FitRunning(f) == f.pc \notin {"idle", "start", "done"}

\* The call of t has begun and not ended.
InCall(t) == t.pc \notin {"start", "done"}

(******************* BM25 under concurrent calls: calls ********************)
\* The corpus the shared index was fitted on before the threads start.
ConcCorpus == <<DocA, DocB>>

RefitCorpora == {<<DocB>>, <<DocB, DocA, DocA>>}

ConcQuery == <<"lo", "au", "tho">>

IdleFit == [pc |-> "idle", documents |-> <<>>, i |-> 1]

FitThread(documents) == [pc |-> "start", documents |-> documents, i |-> 1]

Reader(op, arg) ==
    [op |-> op, pc |-> "start", query |-> ConcQuery, arg |-> arg,
     doc_freqs |-> <<>>, doc_len |-> 0, n |-> 0, i |-> 0, scores |-> <<>>,
     out |-> [raised |-> FALSE, value |-> 0],
     index0 |-> BM25_init, overlapped |-> FALSE]

ReaderCalls == {Reader("score", 0), Reader("score", 1), Reader("search", 2)}

Readers == 1..2

InitConc ==
    /\ bm25 = BM25_fit(BM25_init, ConcCorpus)
    /\ fitted = ConcCorpus
    /\ documents_cache = <<>>
    /\ documents_metadata = <<>>
    /\ inp = NoInp
    /\ ret = NoRet
    /\ NoRateLimiter
    /\ \E f \in {IdleFit} \cup {FitThread(documents) : documents \in RefitCorpora},
          rs \in [Readers -> ReaderCalls] :
          threads = [fit |-> f, readers |-> rs]

\* The fit thread runs its next statement.
FitStatement ==
    /\ threads.fit.pc \notin {"idle", "done"}
    /\ bm25' = FitStep(bm25, threads.fit).self
    /\ threads' = [fit |-> FitStep(bm25, threads.fit).t,
                   readers |-> [n \in Readers |->
                       IF InCall(threads.readers[n])
                       THEN [threads.readers[n] EXCEPT !.overlapped = TRUE,
                                                       !.index0 = BM25_init]
                       ELSE threads.readers[n]]]
    /\ fitted' = IF FitStep(bm25, threads.fit).t.pc = "done" THEN threads.fit.documents
                 ELSE fitted
    /\ UNCHANGED <<documents_cache, documents_metadata, inp, ret, rate_limiter,
                   current_time, granted>>

\* Reading thread n runs its next statement.
ReaderStatement(n) ==
    /\ threads.readers[n].pc # "done"
    /\ bm25' = ReaderIndex(bm25, threads.readers[n])
    /\ threads' = [threads EXCEPT !.readers[n] =
                      [ReaderStep(bm25, threads.readers[n]) EXCEPT
                          !.index0 = IF FitRunning(threads.fit) THEN BM25_init
                                     ELSE IF threads.readers[n].pc = "start" THEN bm25
                                     ELSE @,
                          !.overlapped = @ \/ FitRunning(threads.fit)]]
    /\ UNCHANGED <<fitted, documents_cache, documents_metadata, inp, ret, rate_limiter,
                   current_time, granted>>

NextConc == FitStatement \/ \E n \in Readers : ReaderStatement(n)

SpecConc == InitConc /\ [][NextConc]_vars

(****************************** rate limiter *******************************)
\* src/backend/services/rate_limiter.py.  time.time() is in whole seconds.
\* The arguments a RateLimiter is constructed with.
LimiterConfigs ==
    {[max_messages |-> 0, window_seconds |-> 1],
     [max_messages |-> 1, window_seconds |-> 1],
     [max_messages |-> 1, window_seconds |-> 2],
     [max_messages |-> 2, window_seconds |-> 2]}
\* The clock stops at MaxTime.
MaxTime == 3

Users == {"u1", "u2"}

\* d[key] = value
Put(d, key, value) == [x \in DOMAIN d \cup {key} |-> IF x = key THEN value ELSE d[x]]

\* del d[key]
Del(d, key) == [x \in DOMAIN d \ {key} |-> d[x]]

\* self.user_requests[user_id] of a defaultdict(list)
History(self, user_id) ==
    IF user_id \in DOMAIN self.user_requests THEN self.user_requests[user_id] ELSE <<>>

\* Line 45: [t for t in user_history if current_time - t < self.window_seconds]
RECURSIVE Recent(_, _, _)
Recent(user_history, now, window_seconds) ==
    IF user_history = <<>> THEN <<>>
    ELSE (IF now - Head(user_history) < window_seconds THEN <<Head(user_history)>>
          ELSE <<>>) \o Recent(Tail(user_history), now, window_seconds)

\* Line 49 with > in place of >=.
OverLimitOffByOne(user_history, max_messages) == Len(user_history) > max_messages

\* Line 49: len(user_history) >= self.max_messages
OverLimit(user_history, max_messages) == Len(user_history) >= max_messages

\* is_allowed(user_id): the value returned.
is_allowed(self, user_id, now) ==
    ~OverLimit(Recent(History(self, user_id), now, self.window_seconds), self.max_messages)

\* is_allowed(user_id): the object after the call.
is_allowed_state(self, user_id, now) ==
    LET user_history == Recent(History(self, user_id), now, self.window_seconds)
    IN  [self EXCEPT !.user_requests =
            Put(@, user_id,
                IF OverLimit(user_history, self.max_messages) THEN user_history
                ELSE Append(user_history, now))]

\* min(user_history)
Oldest(user_history) ==
    CHOOSE t \in {user_history[n] : n \in 1..Len(user_history)} :
        \A n \in 1..Len(user_history) : t <= user_history[n]

\* get_retry_after(user_id): the value returned.
get_retry_after(self, user_id, now) ==
    LET user_history == History(self, user_id)
    IN  IF user_history = <<>> \/ Len(user_history) < self.max_messages THEN 0
        ELSE Max(0, self.window_seconds - (now - Oldest(user_history)))

\* get_retry_after(user_id): the object after the call (the defaultdict has
\* an entry for every key looked up).
get_retry_after_state(self, user_id) ==
    [self EXCEPT !.user_requests = Put(@, user_id, History(self, user_id))]

\* reset_user(user_id): the object after the call.
reset_user_state(self, user_id) ==
    IF user_id \in DOMAIN self.user_requests
    THEN [self EXCEPT !.user_requests = Del(@, user_id)]
    ELSE self

(*************************** rate limiter: calls ***************************)
InitLimiter ==
    /\ bm25 = BM25_init
    /\ fitted = <<"never">>
    /\ documents_cache = <<>>
    /\ documents_metadata = <<>>
    /\ inp = NoInp
    /\ ret = NoRet
    /\ NoThreads
    /\ \E cfg \in LimiterConfigs :
          rate_limiter = [max_messages |-> cfg.max_messages,
                          window_seconds |-> cfg.window_seconds,
                          user_requests |-> <<>>]
    /\ current_time = 0
    /\ granted = [u \in Users |-> <<>>]

\* A second passes.
Tick ==
    /\ current_time < MaxTime
    /\ current_time' = current_time + 1
    /\ ret' = [op |-> "time"]
    /\ UNCHANGED <<bm25, fitted, documents_cache, documents_metadata, inp, threads,
                   rate_limiter, granted>>

IsAllowedCall(user_id) ==
    /\ ret' = [op |-> "is_allowed", user |-> user_id,
               out |-> is_allowed(rate_limiter, user_id, current_time)]
    /\ rate_limiter' = is_allowed_state(rate_limiter, user_id, current_time)
    /\ granted' = IF is_allowed(rate_limiter, user_id, current_time)
                  THEN [granted EXCEPT ![user_id] = Append(@, current_time)]
                  ELSE granted
    /\ UNCHANGED <<bm25, fitted, documents_cache, documents_metadata, inp, threads,
                   current_time>>

GetRetryAfterCall(user_id) ==
    /\ ret' = [op |-> "get_retry_after", user |-> user_id,
               out |-> get_retry_after(rate_limiter, user_id, current_time)]
    /\ rate_limiter' = get_retry_after_state(rate_limiter, user_id)
    /\ UNCHANGED <<bm25, fitted, documents_cache, documents_metadata, inp, threads,
                   current_time, granted>>

ResetUserCall(user_id) ==
    /\ ret' = [op |-> "reset_user", user |-> user_id]
    /\ rate_limiter' = reset_user_state(rate_limiter, user_id)
    /\ granted' = [granted EXCEPT ![user_id] = <<>>]
    /\ UNCHANGED <<bm25, fitted, documents_cache, documents_metadata, inp, threads,
                   current_time>>

NextLimiter ==
    \/ Tick
    \/ \E user_id \in Users : IsAllowedCall(user_id)
    \/ \E user_id \in Users : GetRetryAfterCall(user_id)
    \/ \E user_id \in Users : ResetUserCall(user_id)

SpecLimiter == InitLimiter /\ [][NextLimiter]_vars

(****************************** claims *************************************)
Indices == -MaxK..MaxK
TopKs == 0..MaxK
Ok(v) == [raised |-> FALSE, value |-> v]

\* C5: on an index on which fit was never called, score(query, i) returns 0.0
\* for every query and every i of either sign, search(query, top_k) returns the
\* empty list, and neither raises.
C5_UnfittedScoresZero ==
    fitted = <<"never">> =>
        /\ \A query \in QueryPool, i \in Indices : BM25_score(bm25, query, i) = Ok(0)
        /\ \A query \in QueryPool, k \in TopKs : BM25_search(bm25, query, k) = Ok(<<>>)
        /\ ret.op \in {"score", "search"} => ~ret.out.raised

C5_Witness ==
    /\ fitted = <<"never">>
    /\ ret.op = "score"
    /\ ret.arg = MaxK
    /\ ret.out = Ok(0)

\* C6: on a fitted index, score and search change no field of the index, and a
\* search repeated with the same arguments returns the same ordered list.
C6_ReadsLeaveIndexUnchanged ==
    [][/\ (bm25.initialized /\ ret'.op \in {"score", "search"}) => bm25' = bm25
       /\ (/\ bm25.initialized
           /\ ret.op = "search" /\ ret'.op = "search"
           /\ ret'.query = ret.query /\ ret'.arg = ret.arg) => ret'.out = ret.out]_vars

C6_Witness ==
    /\ bm25.initialized
    /\ bm25.doc_count >= 2
    /\ ret.op = "search"
    /\ Len(ret.out.value) >= 2
    /\ ret.out.value[1][2] > 0

\* C7: on a fitted index of N documents, search(query, top_k) with top_k >= 0
\* returns exactly min(top_k, N) pairs <<doc_index, score>>, each document at
\* most once with its own score, in non-increasing score order, equal scores in
\* increasing doc_index order, and no document left out outranks one returned.
C7_SearchOrdered ==
    (ret.op = "search" /\ bm25.initialized /\ ret.arg >= 0) =>
        LET out == ret.out.value
            N   == Len(fitted)
            in  == {out[n][1] : n \in 1..Len(out)}
            sc(i) == BM25_score(bm25, ret.query, i).value
        IN  /\ ~ret.out.raised
            /\ Len(out) = Min(ret.arg, N)
            /\ \A n \in 1..Len(out) : out[n][1] \in 0..(N - 1) /\ out[n][2] = sc(out[n][1])
            /\ \A m, n \in 1..Len(out) : m < n =>
                   \/ out[m][2] > out[n][2]
                   \/ out[m][2] = out[n][2] /\ out[m][1] < out[n][1]
            /\ \A j \in (0..(N - 1)) \ in : \A n \in 1..Len(out) :
                   \/ sc(j) < out[n][2]
                   \/ sc(j) = out[n][2] /\ j > out[n][1]

\* Two documents tie on a positive score and a zero-scored document is returned.
C7_Witness ==
    /\ ret.op = "search" /\ bm25.initialized
    /\ Len(ret.out.value) >= 2
    /\ \E n \in 1..(Len(ret.out.value) - 1) :
           /\ ret.out.value[n][2] = ret.out.value[n + 1][2]
           /\ ret.out.value[n][1] < ret.out.value[n + 1][1]
    /\ ret.out.value[Len(ret.out.value)][2] = 0
    /\ ret.out.value[1][2] > 0

\* C8: after any sequence of fit calls, score and search return what a fresh
\* BM25 object returns after only the last fit.
C8_FitReplaces ==
    fitted # <<"never">> =>
        LET fresh == BM25_fit(BM25_init, fitted)
        IN  /\ \A query \in QueryPool, i \in Indices :
                   BM25_score(bm25, query, i) = BM25_score(fresh, query, i)
            /\ \A query \in QueryPool, k \in TopKs :
                   BM25_search(bm25, query, k) = BM25_search(fresh, query, k)

\* A second fit on a smaller, different corpus, with idf entries of the first left behind.
C8_Witness ==
    /\ fitted # <<"never">>
    /\ bm25.idf # BM25_fit(BM25_init, fitted).idf
    /\ ret.op = "search"
    /\ Len(ret.out.value) >= 1

\* C3: whatever the LLM answers, generate_multi_queries returns between 1 and 6
\* queries and the first one is the original query.
C3_OriginalFirstCapped ==
    ret.op = "generate" =>
        /\ Len(ret.out) >= 1
        /\ Len(ret.out) <= 6
        /\ ret.out[1] = JStr(inp.query)

\* The LLM lists MaxCandidates queries and 6 come back.
C3_Witness ==
    /\ ret.op = "generate"
    /\ inp.model
    /\ LLMQueries(inp.response).ok
    /\ Len(LLMQueries(inp.response).items) = MaxCandidates
    /\ Len(ret.out) = 6

\* C4 (as claimed): with the LLM absent, raising or answering malformed output
\* (text that is not JSON, fenced text, JSON without a "queries" list, a
\* "queries" value that is not a list), the result is the original query
\* followed only by static synonym expansions, at most 3 of them.
C4_FallbackOnlyStatic ==
    (ret.op = "generate" /\ inp.kind # "listed") =>
        LET static == {JStr(simple_query_expansion(inp.query)[i]) :
                          i \in 1..Len(simple_query_expansion(inp.query))}
        IN  /\ Len(ret.out) >= 1
            /\ ret.out[1] = JStr(inp.query)
            /\ Len(ret.out) - 1 <= 3
            /\ \A i \in 2..Len(ret.out) : ret.out[i] \in static

\* Number of entries of a list with the given content.
CountContent(results, content) ==
    Cardinality({i \in 1..Len(results) : results[i].content = content})

\* C1: with top_k >= 0, rerank_results returns exactly min(top_k, len(results))
\* items whatever the judge does (absent, raising, unparseable, mixed), and
\* the list it truncates holds every input candidate exactly once.
C1_RerankKeepsCandidates ==
    (ret.op = "rerank" /\ inp.top_k >= 0) =>
        /\ Len(ret.out) = Min(inp.top_k, Len(inp.results))
        /\ Len(ret.reranked) = Len(inp.results)
        /\ \A r \in ResultPool :
               CountContent(ret.reranked, r.content) = CountContent(inp.results, r.content)
        /\ ret.out = SubSeq(ret.reranked, 1, Len(ret.out))

\* Every judge call fails, len(results) >= top_k >= 2, and top_k items come back.
C1_Witness ==
    /\ ret.op = "rerank"
    /\ inp.model
    /\ inp.top_k >= 2
    /\ Len(inp.results) >= inp.top_k
    /\ \A i \in 1..Len(inp.judge) : ~JudgedScore(inp.judge[i]).ok
    /\ Len(ret.out) = inp.top_k

\* The two batches a hybrid_search call merges: what the semantic search
\* returned and what BM25 returned (empty for a channel that is absent or raised).
SemList ==
    IF inp.rag_system /\ "results" \in DOMAIN inp.semantic THEN inp.semantic.results ELSE <<>>

BmList ==
    IF bm25.initialized /\ ~inp.fault
    THEN BM25_search(bm25, inp.query, 2 * inp.k).value ELSE <<>>

SemRanks(content) == {i \in 1..Len(SemList) : ResultContent(SemList[i]) = content}
BmRanks(content) == {n \in 1..Len(BmList) : documents_cache[BmList[n][1] + 1] = content}
Last(S) == CHOOSE i \in S : \A j \in S : j <= i

\* 1 - rank/total of the content's last place in the semantic batch, times the weight.
WeightedSem(content) ==
    ((Milli - ((Last(SemRanks(content)) - 1) * Milli) \div Len(SemList))
        * inp.semantic_weight) \div 10

BmBest == Last({BmList[n][2] : n \in 1..Len(BmList)})

\* score / (largest score of the batch), 0 when that is 0, times the weight.
WeightedKw(content) ==
    ((IF BmBest = 0 THEN 0
      ELSE (BmList[Last(BmRanks(content))][2] * Milli) \div BmBest)
        * inp.keyword_weight) \div 10

\* C2: a content returned by both channels gets the sum of its weighted
\* semantic score and its weighted keyword score (within one channel the last
\* occurrence of a repeated content counts); the sum is at least each of the
\* two and larger than each when both are positive.
C2_BothChannelsSummed ==
    ret.op = "hybrid" =>
        \A n \in 1..Len(ret.out) :
            LET content == ret.out[n].content
                score   == ret.out[n].relevance_score
            IN  (SemRanks(content) # {} /\ BmRanks(content) # {}) =>
                    /\ score = WeightedSem(content) + WeightedKw(content)
                    /\ score >= WeightedSem(content)
                    /\ score >= WeightedKw(content)
                    /\ (WeightedSem(content) > 0 /\ WeightedKw(content) > 0) =>
                           score > WeightedSem(content) /\ score > WeightedKw(content)

C2_Witness ==
    /\ ret.op = "hybrid"
    /\ \E n \in 1..Len(ret.out) :
          /\ SemRanks(ret.out[n].content) # {}
          /\ BmRanks(ret.out[n].content) # {}
          /\ WeightedSem(ret.out[n].content) > 0
          /\ WeightedKw(ret.out[n].content) > 0
          /\ ret.out[n].relevance_score > WeightedSem(ret.out[n].content)

\* C9: when the semantic search raises, hybrid_search returns what the BM25
\* channel alone gives; when the BM25 search raises, what the semantic channel
\* alone gives; when both raise, the empty list.
C9_ChannelFailureDegrades ==
    ret.op = "hybrid" =>
        LET semFails == inp.rag_system /\ "raises" \in DOMAIN inp.semantic
            bmFails  == bm25.initialized /\ inp.fault
            noSemantic == [Self EXCEPT !.rag_system = FALSE]
            noIndex    == [Self EXCEPT !.bm25 = BM25_init]
            noFault    == [inp EXCEPT !.fault = FALSE]
        IN  /\ (semFails /\ ~bmFails) => ret.out = hybrid_search(noSemantic, noFault)
            /\ (bmFails /\ ~semFails) => ret.out = hybrid_search(noIndex, noFault)
            /\ (semFails /\ bmFails) => ret.out = <<>>

\* The semantic search raises and two BM25 results come back.
C9_Witness ==
    /\ ret.op = "hybrid"
    /\ inp.rag_system /\ "raises" \in DOMAIN inp.semantic
    /\ bm25.initialized /\ ~inp.fault
    /\ Len(ret.out) >= 2
    /\ ret.out[1].relevance_score > 0

\* C10: each channel's score is in [0, 1] before weighting (1 - rank/total for
\* the semantic batch, score / largest score, or 0, for the BM25 batch), so
\* with non-negative weights every relevance_score is between 0 and
\* semantic_weight + keyword_weight.
C10_ScoresNormalised ==
    ret.op = "hybrid" =>
        /\ \A n \in 1..Len(ret.results) :
              LET e == ret.results[n]
              IN  /\ e.semantic_score =
                         IF SemRanks(e.content) # {} THEN WeightedSem(e.content) ELSE 0
                  /\ e.keyword_score =
                         IF BmRanks(e.content) # {} THEN WeightedKw(e.content) ELSE 0
                  /\ 0 <= e.semantic_score
                  /\ e.semantic_score <= (Milli * inp.semantic_weight) \div 10
                  /\ 0 <= e.keyword_score
                  /\ e.keyword_score <= (Milli * inp.keyword_weight) \div 10
        /\ \A n \in 1..Len(ret.out) :
              /\ 0 <= ret.out[n].relevance_score
              /\ ret.out[n].relevance_score
                     <= (Milli * (inp.semantic_weight + inp.keyword_weight)) \div 10

\* Two BM25 results with different positive scores, and a result at the top of
\* both channels.
C10_Witness ==
    /\ ret.op = "hybrid"
    /\ inp.keyword_weight > 0
    /\ Len(BmList) >= 2
    /\ BmList[1][2] > BmList[2][2]
    /\ BmList[2][2] > 0
    /\ Len(SemList) >= 2
    /\ \E n \in 1..Len(ret.out) :
          ret.out[n].relevance_score
              = (Milli * (inp.semantic_weight + inp.keyword_weight)) \div 10

(********************* claims: retrieve_with_precision *********************)
Sorted(results) ==
    \A i \in 1..(Len(results) - 1) :
        results[i].relevance_score >= results[i + 1].relevance_score

DistinctContents(results) ==
    \A i, j \in 1..Len(results) : i # j => results[i].content # results[j].content

\* C11: for k >= 0 and every combination of use_multi_query, use_hybrid and
\* use_rerank, the list retrieve_with_precision returns and every list
\* hybrid_search returned to it (asked for 2k) are ordered by non-increasing
\* relevance_score, hold at most k (2k) entries, and hold no content twice.
C11_SortedCappedDistinct ==
    ret.op = "retrieve" /\ inp.k >= 0 =>
        /\ Sorted(ret.out.value)
        /\ Len(ret.out.value) <= inp.k
        /\ DistinctContents(ret.out.value)
        /\ inp.use_hybrid =>
              \A n \in 1..Len(ret.trace.per_query) :
                  /\ Sorted(ret.trace.per_query[n])
                  /\ Len(ret.trace.per_query[n]) <= 2 * inp.k
                  /\ DistinctContents(ret.trace.per_query[n])

\* A reranked hybrid call that merged more candidates than k, retrieved one
\* content by several queries, and returns k >= 2 results of different scores.
C11_Witness ==
    /\ ret.op = "retrieve"
    /\ inp.use_hybrid /\ inp.use_rerank /\ inp.use_multi_query /\ inp.model
    /\ inp.k >= 2
    /\ Len(ret.out.value) = inp.k
    /\ Len(ret.trace.merged_results) > inp.k
    /\ ret.out.value[1].relevance_score > ret.out.value[2].relevance_score
    /\ \E m, n \in 1..Len(ret.trace.per_query) :
          /\ m # n
          /\ ret.trace.per_query[m] # <<>> /\ ret.trace.per_query[n] # <<>>
          /\ ret.trace.per_query[m][1].content = ret.trace.per_query[n][1].content

\* Every result the queries retrieved, in retrieval order.
RECURSIVE Flat(_)
Flat(lists) == IF lists = <<>> THEN <<>> ELSE Head(lists) \o Flat(Tail(lists))

\* The scores with which content was retrieved, in retrieval order.
RECURSIVE ScoresOf(_, _)
ScoresOf(content, results) ==
    IF results = <<>> THEN <<>>
    ELSE (IF Head(results).content = content THEN <<Head(results).relevance_score>>
          ELSE <<>>) \o ScoresOf(content, Tail(results))

Retrievals(content) == ScoresOf(content, Flat(ret.trace.per_query))

\* C12: the merged score of a content retrieved with scores s1..sm (in query
\* order) is s1 + 0.5*s2 + ... + 0.5*sm, each half rounded to the fixed-point
\* unit; a content retrieved once keeps s1; the merged list holds exactly the
\* retrieved contents.
C12_HalfWeightBoost ==
    ret.op = "retrieve" /\ ~ret.out.raised =>
        /\ \A n \in 1..Len(ret.trace.merged_results) :
              LET s == Retrievals(ret.trace.merged_results[n].content)
              IN  /\ s # <<>>
                  /\ ret.trace.merged_results[n].relevance_score =
                         s[1] + SumSeq([i \in 1..(Len(s) - 1) |-> s[i + 1] \div 2])
        /\ \A n \in 1..Len(Flat(ret.trace.per_query)) :
              \E m \in 1..Len(ret.trace.merged_results) :
                  ret.trace.merged_results[m].content =
                      Flat(ret.trace.per_query)[n].content

\* One content retrieved three times with non-zero scores, another once.
C12_Witness ==
    /\ ret.op = "retrieve"
    /\ \E m, n \in 1..Len(ret.trace.merged_results) :
          LET s == Retrievals(ret.trace.merged_results[m].content)
          IN  /\ Len(s) >= 3
              /\ s[2] > 1 /\ s[3] > 1
              /\ Len(Retrievals(ret.trace.merged_results[n].content)) = 1

\* C13: with use_rerank the reranker is given the first 2k entries of the
\* sorted merged list, the judge is asked about at most 2k passages and at
\* most k results are returned; without use_rerank the result is the first
\* min(k, n) merged candidates, scores unchanged.
C13_RerankWindow ==
    ret.op = "retrieve" /\ ~ret.out.raised =>
        LET merged == ret.trace.merged_results
        IN  /\ Sorted(merged)
            /\ IF inp.use_rerank
               THEN /\ ret.trace.given = SubSeq(merged, 1, Min(2 * inp.k, Len(merged)))
                    /\ ret.trace.judge_calls <= 2 * inp.k
                    /\ Len(ret.out.value) <= inp.k
               ELSE ret.out.value = SubSeq(merged, 1, Min(inp.k, Len(merged)))

\* A reranked call with a judge and more merged candidates than 2k >= 2.
C13_Witness ==
    /\ ret.op = "retrieve"
    /\ inp.use_rerank /\ inp.model
    /\ inp.k >= 1
    /\ Len(ret.trace.merged_results) > 2 * inp.k
    /\ ret.trace.judge_calls = 2 * inp.k
    /\ Len(ret.out.value) = inp.k

\* The store has no document for any query.
EmptyStore == inp.rag_system => inp.store = <<[rows |-> <<>>]>>

\* C14: with an empty corpus (no rows in the store; BM25 unfitted or fitted on
\* an empty list) retrieve_with_precision returns the empty list and does not
\* raise, for every query, k >= 1 and flag combination.
C14_EmptyCorpusEmptyResult ==
    (/\ ret.op = "retrieve"
     /\ EmptyStore
     /\ (~bm25.initialized \/ fitted = <<>>)
     /\ inp.k >= 1) => ret.out = [raised |-> FALSE, value |-> <<>>]

\* All stages on, a store without rows and an index fitted on no document.
C14_Witness ==
    /\ ret.op = "retrieve"
    /\ inp.rag_system /\ inp.store = <<[rows |-> <<>>]>>
    /\ bm25.initialized /\ fitted = <<>>
    /\ inp.k >= 1
    /\ inp.use_multi_query /\ inp.use_hybrid /\ inp.use_rerank /\ inp.model
    /\ Len(ret.trace.queries) >= 2

\* C15: no failure of the store or embedding, of the query generator or of
\* the judge leaves retrieve_with_precision as an exception: a store that
\* fails on every query gives the result of a store without rows, a judge that
\* fails on every passage gives the result of the call without reranking.
C15_FailuresStayInside ==
    ret.op = "retrieve" =>
        /\ ~ret.out.raised
        /\ inp.store = <<Raises>> =>
              ret.out = retrieve_with_precision(PrecisionSelf,
                                                [inp EXCEPT !.store = <<[rows |-> <<>>]>>])
        /\ inp.judge = <<Raises>> =>
              ret.out = retrieve_with_precision(PrecisionSelf,
                                                [inp EXCEPT !.use_rerank = FALSE])

\* The semantic-only path with a store that answers the first query and fails
\* on the second: the rows of the first are returned.
C15_Witness ==
    /\ ret.op = "retrieve"
    /\ inp.rag_system /\ ~inp.use_hybrid
    /\ inp.store = <<[rows |-> <<RowA, RowD>>], Raises>>
    /\ Len(ret.trace.queries) >= 2
    /\ ret.out.value # <<>>

\* C16: retrieve_with_precision called with k <= 0 ends in an input-validation
\* error instead of returning a list.
C16_ConfigRejected ==
    ret.op = "retrieve" /\ inp.k <= 0 => ret.out.raised

(**************************** claims: reranker ******************************)
\* What each answer of JudgePool is: a judged score, or a failed judge call.
Verdict(response) ==
    CASE response = Raises -> [ok |-> FALSE]
      [] response = Text(<<Prose>>) -> [ok |-> FALSE]
      [] response = Text(<<Prose, FenceJson, Ws, ScoreJson(JNum(900)), Ws, Fence>>) ->
             [ok |-> TRUE, score |-> 900]
      [] response = Text(<<ScoreJson(JNum(100)), Ws>>) -> [ok |-> TRUE, score |-> 100]
      [] response = Text(<<JsonText(JDict([reason |-> JStr(<<"why">>)]))>>) ->
             [ok |-> TRUE, score |-> 500]
      [] response = Text(<<ScoreJson(JStr(<<"high">>))>>) -> [ok |-> FALSE]

Times(x, seq) == Cardinality({i \in 1..Len(seq) : seq[i] = x})

\* The candidate the claim expects for results[i] and judge[i] alone.
ExpectedRerank(i) ==
    LET v == Verdict(inp.judge[i])
    IN  IF v.ok
        THEN [inp.results[i] EXCEPT
                 !.relevance_score = (inp.results[i].relevance_score + v.score) \div 2]
        ELSE inp.results[i]

\* C17: with a judge present, the reranked batch is, up to order, one candidate
\* per input: score (prior + judged)/2 and the other fields unchanged where
\* the judge call succeeded, the input unchanged where it raised or could not
\* be parsed; each depends on its own judge call only.
C17_AverageOrKeep ==
    ret.op = "rerank" /\ inp.model /\ inp.results # <<>> =>
        /\ Len(ret.reranked) = Len(inp.results)
        /\ \A i \in 1..Len(inp.results) :
              Times(ExpectedRerank(i), ret.reranked) =
                  Times(ExpectedRerank(i), [j \in 1..Len(inp.results) |-> ExpectedRerank(j)])

\* One candidate judged, the other with a failed judge call.
C17_Witness ==
    /\ ret.op = "rerank" /\ inp.model
    /\ Len(inp.results) = 2
    /\ inp.results[1].content # inp.results[2].content
    /\ Verdict(inp.judge[1]).ok /\ Verdict(inp.judge[1]).score = 900
    /\ inp.judge[2] = Raises
    /\ \E n \in 1..2 : ret.reranked[n] = inp.results[2]

\* C18: for every input list and judge behaviour, an absent judge included,
\* the list rerank_results returns is in non-increasing relevance_score order.
C18_RerankSorted ==
    ret.op = "rerank" => Sorted(ret.out)

(**************************** claims: citations *****************************)
\* The first n parts with the separator between neighbours.
RECURSIVE Joined(_, _)
Joined(parts, n) ==
    IF n = 0 THEN <<>>
    ELSE IF n = 1 THEN parts[1]
    ELSE Joined(parts, n - 1) \o <<"\n\n---\n\n">> \o parts[n]

\* C19: get_context_with_citations returns one citation per result in result
\* order, index 1..n, with source, page, book_title and relevance of that
\* result, and the context string is the contents in that order with the
\* separator between them (empty for no result).
C19_CitationsNumbered ==
    ret.op = "citations" =>
        LET n == Len(ret.results)
        IN  /\ Len(ret.out.citations) = n
            /\ \A i \in 1..n :
                  ret.out.citations[i] =
                      [index |-> i, source |-> ret.results[i].source,
                       page |-> ret.results[i].page,
                       book_title |-> ret.results[i].book_title,
                       relevance |-> ret.results[i].relevance_score]
            /\ ret.out.context_string =
                   Joined([i \in 1..n |-> ret.results[i].content], n)
            /\ n = 0 => ret.out = [context_string |-> <<>>, citations |-> <<>>]

\* Citations of two results from different sources.
C19_Witness ==
    /\ ret.op = "citations"
    /\ Len(ret.results) = 2
    /\ ret.results[1].source # ret.results[2].source
    /\ ret.out.citations[2].index = 2

(**************************** claims: chunkers ******************************)
\* C20: every chunk but the last has a size between the minimum and the
\* maximum: len(content)//4 tokens between min_chunk_size and max_chunk_size
\* for SemanticChunker.chunk, len(content) characters between min_size and
\* target_size for semantic_chunk.
C20_ChunkSizeBound ==
    /\ ret.op = "chunk" =>
          \A i \in 1..(Len(ret.out) - 1) :
              /\ inp.self.min_chunk_size <= Len(ret.out[i].content) \div 4
              /\ Len(ret.out[i].content) \div 4 <= inp.self.max_chunk_size
    /\ ret.op = "semantic_chunk" =>
          \A i \in 1..(Len(ret.out) - 1) :
              /\ inp.cfg.min_size <= Len(ret.out[i].content)
              /\ Len(ret.out[i].content) <= inp.cfg.target_size

\* The last n characters of a are the first n of b, for some n >= 1.
SharedRegion(a, b) ==
    \E n \in 1..Min(Len(a), Len(b)) : SubSeq(a, Len(a) - n + 1, Len(a)) = SubSeq(b, 1, n)

\* C21: with a positive overlap setting, every chunk closed on overflow (every
\* chunk but the last) is followed by a chunk that begins with a non-empty
\* region with which the closed chunk ends.
C21_OverlapShared ==
    /\ ret.op = "chunk" /\ inp.self.overlap_percentage > 0 =>
          \A i \in 1..(Len(ret.out) - 1) :
              SharedRegion(ret.out[i].content, ret.out[i + 1].content)
    /\ ret.op = "semantic_chunk" /\ inp.cfg.overlap > 0 =>
          \A i \in 1..(Len(ret.out) - 1) :
              SharedRegion(ret.out[i].content, ret.out[i + 1].content)

HasInk(text) == \E i \in 1..Len(text) : text[i] \notin Whitespace

\* C22: a text with a non-whitespace character that is shorter than the minimum
\* size (in tokens for chunk, in characters for semantic_chunk) gives exactly
\* one chunk, whose content is the trimmed text.
C22_ShortInputOneChunk ==
    /\ (ret.op = "chunk" /\ HasInk(inp.text)
        /\ estimate_tokens(inp.text) < inp.self.min_chunk_size) =>
          /\ Len(ret.out) = 1
          /\ ret.out[1].content = StripChars(inp.text)
    /\ (ret.op = "semantic_chunk" /\ HasInk(inp.text)
        /\ Len(inp.text) < inp.cfg.min_size) =>
          /\ Len(ret.out) = 1
          /\ ret.out[1].content = StripChars(inp.text)

\* C28: every chunk of SemanticChunker.chunk has 0 <= start <= end <= len(text)
\* and its content is text[start:end] with the white space at both ends
\* removed.
C28_ContentIsSourceSlice ==
    ret.op = "chunk" =>
        \A i \in 1..Len(ret.out) :
            /\ 0 <= ret.out[i].start
            /\ ret.out[i].start <= ret.out[i].end
            /\ ret.out[i].end <= Len(inp.text)
            /\ ret.out[i].content =
                   StripChars(SubSeq(inp.text, ret.out[i].start + 1, ret.out[i].end))

\* A chunk that begins with the overlap of the chunk before it.
C28_Witness ==
    /\ ret.op = "chunk"
    /\ Len(ret.out) >= 2
    /\ \E i \in 1..(Len(ret.out) - 1) :
          /\ ret.out[i + 1].start < ret.out[i].end
          /\ ret.out[i + 1].start > 0
          /\ inp.text[ret.out[i + 1].start + 1] \notin Whitespace

\* s is a contiguous part of text.
Within(s, text) ==
    \E k \in 0..(Len(text) - Len(s)) : SubSeq(text, k + 1, k + Len(s)) = s

\* C29: every sentence of the text is within a chunk semantic_chunk returns,
\* and every non-whitespace character of the text lies in [start, end) of a
\* chunk SemanticChunker.chunk returns.
C29_NoInputLost ==
    /\ ret.op = "semantic_chunk" =>
          \A n \in 1..Len(split_into_sentences(inp.text)) :
              \E i \in 1..Len(ret.out) :
                  Within(split_into_sentences(inp.text)[n], ret.out[i].content)
    /\ ret.op = "chunk" =>
          \A p \in 1..Len(inp.text) :
              inp.text[p] \notin Whitespace =>
                  \E i \in 1..Len(ret.out) :
                      ret.out[i].start < p /\ p <= ret.out[i].end

\* C23: on a fitted index, score(query, i) for i at or beyond the size of the
\* fitted corpus returns 0.0 and does not raise, the empty corpus included.
C23_UnseenDocScoresZero ==
    (fitted # <<"never">> /\ ret.op = "score" /\ ret.arg >= Len(fitted)) =>
        ret.out = Ok(0)

\* C25: there are a corpus size N and a document frequency df, N/2 < df <= N,
\* for which the idf fit stores is below 0.
C25_NegativeIdfExists ==
    bm25.initialized =>
        \E N \in 1..(MaxDocs + 1) : \E df \in 1..N : 2 * df > N /\ Idf(N, df) < 0

\* C25, amended: every idf fit stores is above 0, also for a term present in
\* every document, and no score is below 0.
C25_IdfPositive ==
    /\ bm25.initialized =>
          \A N \in 1..(MaxDocs + 1) : \A df \in 1..N : Idf(N, df) > 0
    /\ bm25.initialized => \A t \in DOMAIN bm25.idf : bm25.idf[t] > 0
    /\ (ret.op = "score" /\ ~ret.out.raised) => ret.out.value >= 0

\* A term of every document of a corpus of two or more has scored.
C25_Witness ==
    /\ fitted # <<"never">>
    /\ Len(fitted) >= 2
    /\ \E t \in DOMAIN bm25.idf :
          /\ \A i \in 1..Len(fitted) : t \in DOMAIN bm25.doc_freqs[i]
          /\ bm25.idf[t] = Idf(Len(fitted), Len(fitted))
          /\ ret.op = "score"
          /\ ~ret.out.raised
          /\ \E n \in 1..Len(tokenize(ret.query)) : tokenize(ret.query)[n] = t
          /\ ret.out.value > 0

\* The score each query's search gave a content, one entry per query that
\* retrieved it (its first occurrence in that query's results), in query order.
RECURSIVE FirstScores(_, _)
FirstScores(content, per_query) ==
    IF per_query = <<>> THEN <<>>
    ELSE (IF ScoresOf(content, Head(per_query)) = <<>> THEN <<>>
          ELSE <<ScoresOf(content, Head(per_query))[1]>>)
         \o FirstScores(content, Tail(per_query))

\* C26: a merged score is the score of the first query that retrieved the
\* content plus half the score of each other query that retrieved it; further
\* occurrences within one query's results add nothing, so with a single query
\* every merged score is the score that query's search assigned.
C26_BoostOnlyAcrossQueries ==
    ret.op = "retrieve" /\ ~ret.out.raised =>
        \A n \in 1..Len(ret.trace.merged_results) :
            LET s == FirstScores(ret.trace.merged_results[n].content, ret.trace.per_query)
            IN  /\ s # <<>>
                /\ ret.trace.merged_results[n].relevance_score =
                       s[1] + SumSeq([i \in 1..(Len(s) - 1) |-> s[i + 1] \div 2])

\* The first n attempts of the embedding service fail.
AllFail(service, n) == \A i \in 1..n : "embedding" \notin DOMAIN Answer(service, i)

\* C27: create_embedding does not raise, calls the service at most retry_count
\* times, stops at the first attempt that succeeds and returns its vector, and
\* returns None exactly when every attempt fails; when the three attempts of
\* retrieve_relevant_context fail it returns [] without raising and without a
\* database query, and hybrid_search returns what it returns for an empty
\* semantic channel.
C27_EmbeddingFailuresCaught ==
    /\ ret.op = "create_embedding" =>
          /\ ~ret.out.raised
          /\ ret.out.calls <= inp.retry_count
          /\ AllFail(inp.service, ret.out.calls - 1)
          /\ ret.out.value # None =>
                 ret.out.value = Answer(inp.service, ret.out.calls).embedding
          /\ ret.out.value = None <=> AllFail(inp.service, inp.retry_count)
    /\ (ret.op = "retrieve_relevant_context" /\ AllFail(inp.service, DefaultRetryCount)) =>
          /\ ret.out = Ok(<<>>)
          /\ ret.db_queries = 0
    /\ (ret.op = "hybrid_search" /\ AllFail(inp.service, DefaultRetryCount)) =>
          /\ ret.db_queries = 0
          /\ ret.out = hybrid_search(Self, EmbedHybridArgs(Ok(<<>>)))

\* Every attempt failed, the database had rows, and hybrid_search returned the
\* keyword results.
C27_Witness ==
    /\ ret.op = "hybrid_search"
    /\ AllFail(inp.service, DefaultRetryCount)
    /\ \E i \in 1..DefaultRetryCount : "raises" \in DOMAIN Answer(inp.service, i)
    /\ "rows" \in DOMAIN inp.db
    /\ bm25.initialized
    /\ ret.out # <<>>

\* The times of log that lie in the window of window_seconds starting at start.
InWindow(log, start, window_seconds) ==
    {n \in 1..Len(log) : start <= log[n] /\ log[n] < start + window_seconds}

\* No window of window_seconds holds more than max_messages grants of a user.
WindowBound ==
    \A u \in Users : \A start \in 0..MaxTime :
        Cardinality(InWindow(granted[u], start, rate_limiter.window_seconds))
            <= rate_limiter.max_messages

\* Whether is_allowed(v) would return True now.
WouldAllow(self, v, now) == is_allowed(self, v, now)

\* C30: in every window [t, t + window_seconds) the is_allowed calls of a user
\* that returned True since the user's last reset number at most max_messages;
\* a call that returns False adds no timestamp to the user's history; a call
\* for one user leaves the history of every other user, and what is_allowed
\* would return for them, as they were.
C30_WindowNeverExceeded ==
    [][/\ WindowBound'
       /\ (ret'.op = "is_allowed" /\ ~ret'.out) =>
              /\ History(rate_limiter', ret'.user) =
                     Recent(History(rate_limiter, ret'.user), current_time,
                            rate_limiter.window_seconds)
              /\ granted' = granted
       /\ \A v \in Users :
              (ret'.op \in {"is_allowed", "get_retry_after", "reset_user"}
               /\ ret'.user # v) =>
                  /\ History(rate_limiter', v) = History(rate_limiter, v)
                  /\ granted'[v] = granted[v]
                  /\ WouldAllow(rate_limiter', v, current_time')
                         = WouldAllow(rate_limiter, v, current_time)]_vars

\* A user at the limit again after earlier grants have left the window, while
\* another user is at the limit too.
C30_Witness ==
    /\ ret.op = "is_allowed"
    /\ ~ret.out
    /\ rate_limiter.max_messages >= 2
    /\ Len(granted[ret.user]) > rate_limiter.max_messages
    /\ \E v \in Users \ {ret.user} :
          Len(History(rate_limiter, v)) = rate_limiter.max_messages

\* What the call of thread t returns when it runs alone on the index self.
RunAlone(self, t) ==
    IF t.op = "score" THEN BM25_score(self, t.query, t.arg)
    ELSE BM25_search(self, t.query, t.arg)

\* C24: a score or search call during which no statement of fit ran returns
\* what it returns when run alone on the index it began with, whatever the
\* other reading thread did meanwhile; and a fit left to finish leaves the
\* index an uninterrupted fit leaves.
C24_ReadersSafeWithoutFit ==
    /\ \A n \in Readers :
          (threads.readers[n].pc = "done" /\ ~threads.readers[n].overlapped) =>
              threads.readers[n].out =
                  RunAlone(threads.readers[n].index0, threads.readers[n])
    /\ threads.fit.pc = "done" =>
          bm25 = BM25_fit(BM25_fit(BM25_init, ConcCorpus), threads.fit.documents)

\* A call that overlapped a fit returned what neither the index before the
\* fit nor the index after it gives: it read a partly rebuilt index.
C24_Witness ==
    /\ threads.fit.pc # "idle"
    /\ \E n \in Readers :
          /\ threads.readers[n].pc = "done"
          /\ threads.readers[n].overlapped
          /\ threads.readers[n].out #
                 RunAlone(BM25_fit(BM25_init, ConcCorpus), threads.readers[n])
          /\ threads.readers[n].out #
                 RunAlone(BM25_fit(BM25_fit(BM25_init, ConcCorpus), threads.fit.documents),
                          threads.readers[n])

====
